---- MODULE Spec2Model ----
(***************************************************************************)
(* A model of the Gongo engine (src/gongo.go, the robot implementation):   *)
(* the sentinel-padded board with incremental neighbour counts, the fast   *)
(* move execution with capture, suicide and simple ko, positional superko  *)
(* through a hash history and a scratch board, random playouts and the     *)
(* playout-driven move generator.                                          *)
(*                                                                         *)
(* Scratch arrays whose stale contents are never read before being         *)
(* written (chainPoints, candidates, updated, and the entries of moves[]   *)
(* and boardHashes[] at indices >= moveCount) are modelled only up to      *)
(* their live length; the neighbour counters of barrier cells, which are   *)
(* never read, stay at their cleared value.                                *)
(***************************************************************************)
EXTENDS Integers, Sequences, FiniteSets, TLC

\* ---------------------------------------------------------------------------
\* Bounds of the exploration
\* ---------------------------------------------------------------------------

\* longest move history explored (games that consist of passes only are
\* explored up to the capacity of moves[])
MaxMoves == 7

\* longest move history explored when the board is driven directly
MaxBoardMoves == 7

\* the longest game before a move is played or generated on the small boards
MaxGenMoves == 4

\* the longest game played in the corner of the size-3 board
MaxKoMoves == 6

\* ---------------------------------------------------------------------------
\* Cells, points, move results
\* ---------------------------------------------------------------------------

EMPTY == 0
WHITE == 1
BLACK == 2
EDGE == 4
CELL_IN_CHAIN == 64

PASS == 0
ONE_CAPTURE == 1024
MOVE_TO_PT_MASK == 1023

maxBoardSize == 25

\* Color: Black = false, White = true in the source; kept as the two names
Colors == {"Black", "White"}

colorToCell(c) == IF c = "White" THEN WHITE ELSE BLACK

GetOpponent(c) == IF c = "White" THEN "Black" ELSE "White"

\* cell | CELL_IN_CHAIN and cell ^ CELL_IN_CHAIN on the one bit they touch
orInChain(c) == IF (c \div CELL_IN_CHAIN) % 2 = 1 THEN c ELSE c + CELL_IN_CHAIN

xorInChain(c) == IF (c \div CELL_IN_CHAIN) % 2 = 1 THEN c - CELL_IN_CHAIN ELSE c + CELL_IN_CHAIN

\* move & ONE_CAPTURE != 0, move & MOVE_TO_PT_MASK, ONE_CAPTURE | move
\* the flag read as set on every stone placement
hasOneCapture_anyStone(m) == m # PASS

hasOneCapture(m) == (m \div ONE_CAPTURE) % 2 = 1

\* a mask of one bit less
moveToPt_narrowMask(m) == m % 512

moveToPt(m) == m % (MOVE_TO_PT_MASK + 1)

withOneCapture(m) == IF hasOneCapture(m) THEN m ELSE m + ONE_CAPTURE

okResult(m) == m \in {"played", "passed"}

\* ---------------------------------------------------------------------------
\* Board geometry (board.clearBoard)
\*
\* A value that is used more than once is passed as an operator argument
\* rather than named in a LET, so that it is computed once.
\* ---------------------------------------------------------------------------

strideOf(size) == size + 1

\* the cell array without the one extra cell at its end
cellsLen_noExtra(size) == strideOf(size) * (strideOf(size) + 1)

cellsLen(size) == strideOf(size) * (strideOf(size) + 1) + 1

\* len(b.moves), also len(r.boardHashes)
movesLen(size) == cellsLen(size) * 4

makePtOf(size, x, y) == y * strideOf(size) + x

\* right, left, up, down
dirOffset(size) == << 1, -1, strideOf(size), -strideOf(size) >>

\* nw, ne, sw, se
diagOffset(size) == << strideOf(size) - 1, strideOf(size) + 1, -strideOf(size) - 1, -strideOf(size) + 1 >>

\* b.allPoints: y-major, x ascending
allPointsOf(size) == [ i \in 1..(size * size) |-> makePtOf(size, ((i - 1) % size) + 1, ((i - 1) \div size) + 1) ]

SeqRange(s) == { s[i] : i \in 1..Len(s) }

\* p is one of b.allPoints
isPlayable(size, p) ==
    /\ p % strideOf(size) \in 1..size
    /\ p \div strideOf(size) \in 1..size

getCoords(size, p) == [ x |-> p % strideOf(size), y |-> p \div strideOf(size) ]

\* The board after clearBoard(newSize), for 1 <= newSize <= maxBoardSize.
\* cells and neighborCounts are indexed 0..len-1 as in the source; moves is
\* the live prefix moves[0..moveCount) as a sequence.
clearedBoard(newSize) ==
    [ size |-> newSize,
      cells |-> [ i \in 0..(cellsLen(newSize) - 1) |-> IF isPlayable(newSize, i) THEN EMPTY ELSE EDGE ],
      neighborCounts |-> [ i \in 0..(cellsLen(newSize) - 1) |->
                             4 - Cardinality({ d \in 1..4 : isPlayable(newSize, i - dirOffset(newSize)[d]) }) ],
      moves |-> << >>,
      moveCount |-> 0,
      commonMoveCount |-> 0 ]

getFriendlyStone(b) == 2 - (b.moveCount % 2)

isMyTurn(b, c) == getFriendlyStone(b) = colorToCell(c)

checkPlayArgs(b, color, x, y) ==
    /\ color \in Colors
    /\ \/ (x = 0 /\ y = 0)
       \/ (x > 0 /\ y > 0 /\ x <= b.size /\ y <= b.size)

\* ---------------------------------------------------------------------------
\* Chains (board.markSurroundedChain, board.capture, board.hasLiberties)
\* ---------------------------------------------------------------------------

\* One direction of a visit in markSurroundedChain: snapCell is the neighbour's
\* cell as read at the start of the visit. st = [cells, chain, revert].
markNeighbor(b, chainColor, st, neighborPt, snapCell) ==
    IF st.revert \/ snapCell # chainColor THEN st
    ELSE IF b.neighborCounts[neighborPt] # 4 THEN [ st EXCEPT !.revert = TRUE ]
    ELSE [ cells |-> [ st.cells EXCEPT ![neighborPt] = orInChain(@) ],
           chain |-> Append(st.chain, neighborPt),
           revert |-> FALSE ]

\* markVisit without the look at the point below
markVisit_noDown(b, chainColor, st, thisPt) ==
    markNeighbor(b, chainColor,
        markNeighbor(b, chainColor,
            markNeighbor(b, chainColor, st, thisPt + 1, st.cells[thisPt + 1]),
            thisPt - 1, st.cells[thisPt - 1]),
        thisPt + strideOf(b.size), st.cells[thisPt + strideOf(b.size)])

\* The body of the visiting loop for thisPt: right, left, up, down.
markVisit(b, chainColor, st, thisPt) ==
    markNeighbor(b, chainColor,
        markNeighbor(b, chainColor,
            markNeighbor(b, chainColor,
                markNeighbor(b, chainColor, st, thisPt + 1, st.cells[thisPt + 1]),
                thisPt - 1, st.cells[thisPt - 1]),
            thisPt + strideOf(b.size), st.cells[thisPt + strideOf(b.size)]),
        thisPt - strideOf(b.size), st.cells[thisPt - strideOf(b.size)])

RECURSIVE markLoop(_, _, _, _)
markLoop(b, chainColor, st, visitedCount) ==
    IF st.revert \/ visitedCount >= Len(st.chain) THEN st
    ELSE markLoop(b, chainColor, markVisit(b, chainColor, st, st.chain[visitedCount + 1]), visitedCount + 1)

\* Clears the mark of every point of chain (cells[p] ^= CELL_IN_CHAIN).
unmarkAll(cells, chain) ==
    [ i \in DOMAIN cells |-> IF \E j \in 1..Len(chain) : chain[j] = i THEN xorInChain(cells[i]) ELSE cells[i] ]

\* markSurroundedChain leaving the marks behind on its revert exit
markResult_keepMarks(st) ==
    IF st.revert
    THEN [ cells |-> st.cells, chainPoints |-> st.chain, chainCount |-> 0 ]
    ELSE [ cells |-> st.cells, chainPoints |-> st.chain, chainCount |-> Len(st.chain) ]

\* the two exits of markSurroundedChain
markResult(st) ==
    IF st.revert
    THEN [ cells |-> unmarkAll(st.cells, st.chain), chainPoints |-> st.chain, chainCount |-> 0 ]
    ELSE [ cells |-> st.cells, chainPoints |-> st.chain, chainCount |-> Len(st.chain) ]

\* Returns [cells, chainPoints, chainCount]: the marked chain when target's
\* chain is surrounded, otherwise the cells as they were and chainCount 0.
markSurroundedChain(b, target) ==
    markResult(markLoop(b, b.cells[target],
                        [ cells |-> [ b.cells EXCEPT ![target] = orInChain(@) ],
                          chain |-> << target >>,
                          revert |-> FALSE ],
                        0))

\* counts with delta added at the four neighbours of p. The counters of
\* barrier cells are written by the source but never read (every read is
\* guarded by the cell holding a stone or being the point played) and
\* copyFrom does not restore them, so on the scratch board they drift without
\* bound; the model keeps them at their cleared value.
bumpNeighbors(size, counts, p, delta) ==
    [ i \in DOMAIN counts |->
        IF /\ i = p + 1 \/ i = p - 1 \/ i = p + strideOf(size) \/ i = p - strideOf(size)
           /\ isPlayable(size, i)
        THEN counts[i] + delta
        ELSE counts[i] ]

RECURSIVE removeChain(_, _, _, _)
removeChain(b, chainPoints, chainCount, i) ==
    IF i >= chainCount THEN b
    ELSE removeChain([ b EXCEPT !.cells[chainPoints[i + 1]] = EMPTY,
                                !.neighborCounts = bumpNeighbors(b.size, b.neighborCounts, chainPoints[i + 1], -1) ],
                     chainPoints, chainCount, i + 1)

\* capture that counts the surrounded chain and leaves its stones standing
captureMarked_keepStones(b, m) ==
    [ b |-> IF m.chainCount = 0 THEN [ b EXCEPT !.cells = m.cells ]
            ELSE [ b EXCEPT !.cells = unmarkAll(m.cells, m.chainPoints) ],
      chainCount |-> m.chainCount ]

captureMarked(b, m) ==
    [ b |-> removeChain([ b EXCEPT !.cells = m.cells ], m.chainPoints, m.chainCount, 0),
      chainCount |-> m.chainCount ]

\* Returns [b, chainCount].
capture(b, target) == captureMarked(b, markSurroundedChain(b, target))

hasLibertiesMarked(b, m) ==
    IF m.chainCount = 0
    THEN [ b |-> [ b EXCEPT !.cells = m.cells ], has |-> TRUE ]
    ELSE [ b |-> [ b EXCEPT !.cells = unmarkAll(m.cells, m.chainPoints) ], has |-> FALSE ]

\* Returns [b, has].
hasLiberties(b, target) == hasLibertiesMarked(b, markSurroundedChain(b, target))

\* ---------------------------------------------------------------------------
\* board.makeMove: the fast move, without superko
\* ---------------------------------------------------------------------------

addCapture(st, c) == [ b |-> c.b, captures |-> st.captures + c.chainCount ]

\* The capture loop over the four directions; st = [b, captures].
RECURSIVE captureDirs(_, _, _, _)
captureDirs(st, move, enemyStone, dir) ==
    IF dir > 4 THEN st
    ELSE IF /\ st.b.cells[move + dirOffset(st.b.size)[dir]] = enemyStone
            /\ st.b.neighborCounts[move + dirOffset(st.b.size)[dir]] = 4
         THEN captureDirs(addCapture(st, capture(st.b, move + dirOffset(st.b.size)[dir])),
                          move, enemyStone, dir + 1)
         ELSE captureDirs(st, move, enemyStone, dir + 1)

\* the revert label without the decrement of the neighbours
revertMove_keepCounts(b, move) == [ b EXCEPT !.cells[move] = EMPTY ]

\* the revert label: remove the placed stone, decrement its neighbours
revertMove(b, move) ==
    [ b EXCEPT !.cells[move] = EMPTY,
               !.neighborCounts = bumpNeighbors(b.size, b.neighborCounts, moveToPt(move), -1) ]

\* b.moves[b.moveCount] = move; b.moveCount++ ("panic" stands for the
\* run-time panic of an index outside moves[])
recordMove(b, move, result, captures) ==
    IF b.moveCount >= movesLen(b.size)
    THEN [ b |-> b, result |-> "panic", captures |-> captures ]
    ELSE [ b |-> [ b EXCEPT !.moves = Append(b.moves, move), !.moveCount = b.moveCount + 1 ],
           result |-> result, captures |-> captures ]

\* a suicide refused with the stone left on the board
suicideOrPlayed_noRevert(h, move) ==
    IF ~h.has
    THEN [ b |-> h.b, result |-> "suicide", captures |-> 0 ]
    ELSE recordMove(h.b, move, "played", 0)

\* the suicide test once the chain of the placed stone has been examined
suicideOrPlayed(h, move) ==
    IF ~h.has
    THEN [ b |-> revertMove(h.b, move), result |-> "suicide", captures |-> 0 ]
    ELSE recordMove(h.b, move, "played", 0)

\* koOrPlayed without the test that the stone taken is the last one played
koOrPlayed_flagOnly(b, move, enemyStone, lastMove) ==
    IF hasOneCapture(lastMove)
    THEN [ b |-> b, result |-> "ko", captures |-> 0 ]
    ELSE recordMove(b, withOneCapture(move), "played", 1)

\* the simple-ko test; lastMove is b.moves[b.moveCount-1]
koOrPlayed(b, move, enemyStone, lastMove) ==
    IF hasOneCapture(lastMove) /\ b.cells[moveToPt(lastMove)] = EMPTY
    THEN [ b |-> revertMove([ b EXCEPT
                                !.cells[moveToPt(lastMove)] = enemyStone,
                                !.neighborCounts = bumpNeighbors(b.size, b.neighborCounts, moveToPt(lastMove), 1) ],
                            move),
           result |-> "ko", captures |-> 0 ]
    ELSE recordMove(b, withOneCapture(move), "played", 1)

\* afterCaptures trusting the neighbour count alone for suicide
afterCaptures_countOnly(cap, move, enemyStone) ==
    IF cap.captures = 0
    THEN IF cap.b.neighborCounts[move] = 4
         THEN [ b |-> revertMove(cap.b, move), result |-> "suicide", captures |-> 0 ]
         ELSE recordMove(cap.b, move, "played", 0)
    ELSE IF cap.captures = 1
    THEN koOrPlayed(cap.b, move, enemyStone, cap.b.moves[cap.b.moveCount])
    ELSE recordMove(cap.b, move, "played", cap.captures)

\* makeMove after the capture loop; cap = [b, captures]
afterCaptures(cap, move, enemyStone) ==
    IF cap.captures = 0
    THEN IF cap.b.neighborCounts[move] = 4
         THEN suicideOrPlayed(hasLiberties(cap.b, move), move)
         ELSE recordMove(cap.b, move, "played", 0)
    ELSE IF cap.captures = 1
    THEN IF cap.b.moveCount = 0
         THEN [ b |-> cap.b, result |-> "panic", captures |-> 1 ]
         ELSE koOrPlayed(cap.b, move, enemyStone, cap.b.moves[cap.b.moveCount])
    ELSE recordMove(cap.b, move, "played", cap.captures)

\* Returns [b, result, captures].
makeMove(b, move) ==
    IF move = PASS THEN recordMove(b, PASS, "passed", 0)
    ELSE IF b.cells[move] # EMPTY THEN [ b |-> b, result |-> "occupied", captures |-> 0 ]
    ELSE afterCaptures(
            captureDirs([ b |-> [ b EXCEPT !.cells[move] = 2 - (b.moveCount % 2),
                                           !.neighborCounts = bumpNeighbors(b.size, b.neighborCounts, move, 1) ],
                          captures |-> 0 ],
                        move, 3 - (2 - (b.moveCount % 2)), 1),
            move, 3 - (2 - (b.moveCount % 2)))

\* ---------------------------------------------------------------------------
\* board.wouldFillEye, board.getHash, board.copyFrom
\* ---------------------------------------------------------------------------

\* the eye test with the diagonal limit one lower
eyeFor_limitOne(b, move, friendlyStone, enemyStone) ==
    /\ \A d \in 1..4 : b.cells[move + dirOffset(b.size)[d]] \in {EDGE, friendlyStone}
    /\ Cardinality({ d \in 1..4 : b.cells[move + diagOffset(b.size)[d]] = enemyStone })
         + (IF \E d \in 1..4 : b.cells[move + diagOffset(b.size)[d]] = EDGE THEN 1 ELSE 0) < 1

eyeFor(b, move, friendlyStone, enemyStone) ==
    /\ \A d \in 1..4 : b.cells[move + dirOffset(b.size)[d]] \in {EDGE, friendlyStone}
    /\ Cardinality({ d \in 1..4 : b.cells[move + diagOffset(b.size)[d]] = enemyStone })
         + (IF \E d \in 1..4 : b.cells[move + diagOffset(b.size)[d]] = EDGE THEN 1 ELSE 0) < 2

\* the eye test without the diagonal neighbours
wouldFillEye_noDiagonals(b, move) ==
    IF move = PASS THEN FALSE
    ELSE \A d \in 1..4 :
            b.cells[move + dirOffset(b.size)[d]] \in {EDGE, 2 - (b.moveCount % 2)}

wouldFillEye(b, move) ==
    IF move = PASS THEN FALSE
    ELSE eyeFor(b, move, 2 - (b.moveCount % 2), 3 - (2 - (b.moveCount % 2)))

\* int64 arithmetic on four 16-bit limbs, least significant first
Limb == 65536

hashSeed == << 5381, 0, 0, 0 >>

\* one limb of k*33 + carry: [limbs so far, carry]
limbStep(acc, limb) ==
    [ out |-> Append(acc.out, (limb * 33 + acc.carry) % Limb),
      carry |-> (limb * 33 + acc.carry) \div Limb ]

\* ((k << 5) + k) + c, wrapping at 64 bits
hashStep(k, c) ==
    limbStep(limbStep(limbStep(limbStep([ out |-> << >>, carry |-> c ], k[1]), k[2]), k[3]), k[4]).out

RECURSIVE hashFrom(_, _, _)
hashFrom(b, k, i) ==
    IF i > b.size * b.size THEN k
    ELSE hashFrom(b, hashStep(k, b.cells[allPointsOf(b.size)[i]]), i + 1)

getHash(b) == hashFrom(b, hashSeed, 1)

\* copyFrom that leaves the neighbour counts of the scratch board as they are
copyFrom_cellsOnly(b, other) ==
    [ size |-> b.size,
      cells |-> [ i \in DOMAIN b.cells |-> IF isPlayable(b.size, i) THEN other.cells[i] ELSE b.cells[i] ],
      neighborCounts |-> b.neighborCounts,
      moves |-> [ i \in 1..other.moveCount |->
                    IF i <= b.commonMoveCount THEN b.moves[i] ELSE other.moves[i] ],
      moveCount |-> other.moveCount,
      commonMoveCount |-> other.moveCount ]

\* b.copyFrom(other), boards of the same size: the playable cells and their
\* neighbour counts, and the moves from b.commonMoveCount on.
copyFrom(b, other) ==
    [ size |-> b.size,
      cells |-> [ i \in DOMAIN b.cells |-> IF isPlayable(b.size, i) THEN other.cells[i] ELSE b.cells[i] ],
      neighborCounts |-> [ i \in DOMAIN b.neighborCounts |->
                             IF isPlayable(b.size, i) THEN other.neighborCounts[i] ELSE b.neighborCounts[i] ],
      moves |-> [ i \in 1..other.moveCount |->
                    IF i <= b.commonMoveCount THEN b.moves[i] ELSE other.moves[i] ],
      moveCount |-> other.moveCount,
      commonMoveCount |-> other.moveCount ]

\* ---------------------------------------------------------------------------
\* The robot: strict moves with positional superko
\* (robot.checkLegalMove, robot.makeMove, robot.Play, robot.SetBoardSize)
\* r = [board, scratchBoard, boardHashes]; boardHashes is the live prefix
\* boardHashes[0..moveCount) as a sequence.
\* ---------------------------------------------------------------------------

\* the superko loop started one entry late
isSuperko_skipFirst(r, newHash) == \E i \in 2..r.board.moveCount : newHash = r.boardHashes[i]

\* the superko loop of checkLegalMove
isSuperko(r, newHash) == \E i \in 1..r.board.moveCount : newHash = r.boardHashes[i]

\* checkLegalMove once the move was tried on the scratch board; m = [b, result, captures]
legalResult(r, m) ==
    IF m.result = "played" /\ isSuperko(r, getHash(m.b))
    THEN [ r |-> [ r EXCEPT !.scratchBoard = m.b ], result |-> "superko" ]
    ELSE [ r |-> [ r EXCEPT !.scratchBoard = m.b ], result |-> m.result ]

\* Returns [r, result].
checkLegalMove(r, move) == legalResult(r, makeMove(copyFrom(r.scratchBoard, r.board), move))

\* robot.makeMove recording the hash of the board as it was before the move
recordHash_hashBefore(r, m) ==
    IF ~okResult(m.result)
    THEN [ r |-> [ r EXCEPT !.board = m.b ], result |-> "panic", captures |-> 0 ]
    ELSE [ r |-> [ r EXCEPT !.board = m.b,
                            !.boardHashes = [ i \in 1..m.b.moveCount |->
                                                IF i = m.b.moveCount THEN getHash(r.board)
                                                ELSE r.boardHashes[i] ] ],
           result |-> m.result,
           captures |-> m.captures ]

\* robot.makeMove after board.makeMove; m = [b, result, captures]
recordHash(r, m) ==
    IF ~okResult(m.result)
    THEN [ r |-> [ r EXCEPT !.board = m.b ], result |-> "panic", captures |-> 0 ]
    ELSE [ r |-> [ r EXCEPT !.board = m.b,
                            !.boardHashes = [ i \in 1..m.b.moveCount |->
                                                IF i = m.b.moveCount THEN getHash(m.b)
                                                ELSE r.boardHashes[i] ] ],
           result |-> m.result,
           captures |-> m.captures ]

\* robot.makeMove after checkLegalMove; c = [r, result]
strictMove(c, move) ==
    IF ~okResult(c.result)
    THEN [ r |-> c.r, result |-> c.result, captures |-> 0 ]
    ELSE recordHash(c.r, makeMove(c.r.board, move))

\* Returns [r, result, captures].
robotMakeMove(r, move) == strictMove(checkLegalMove(r, move), move)

\* moveResult.toPlayResult: [ok, message, captures]; "captures: N" is kept as
\* the message "captures" and the number N
toPlayResult(result, captures) ==
    IF result = "played"
    THEN [ ok |-> TRUE, message |-> "captures", captures |-> captures ]
    ELSE [ ok |-> okResult(result), message |-> result, captures |-> 0 ]

\* what Play returns for its own move m = [r, result, captures]
playResult(m, outOfTurn) ==
    IF m.result = "panic"
    THEN [ r |-> m.r, ok |-> FALSE, message |-> "panic", captures |-> 0,
           result |-> "panic", autoPass |-> outOfTurn ]
    ELSE [ r |-> m.r, ok |-> toPlayResult(m.result, m.captures).ok,
           message |-> toPlayResult(m.result, m.captures).message,
           captures |-> toPlayResult(m.result, m.captures).captures,
           result |-> m.result, autoPass |-> outOfTurn ]

\* Play after the opponent's inserted pass p = [r, result, captures]
playAfterPass(p, move, outOfTurn) ==
    IF p.result = "panic"
    THEN [ r |-> p.r, ok |-> FALSE, message |-> "panic", captures |-> 0,
           result |-> "panic", autoPass |-> outOfTurn ]
    ELSE IF ~okResult(p.result)
    THEN [ r |-> p.r, ok |-> FALSE, message |-> "other side cannot pass?", captures |-> 0,
           result |-> p.result, autoPass |-> outOfTurn ]
    ELSE playResult(robotMakeMove(p.r, move), outOfTurn)

\* Returns [r, ok, message, captures, result, autoPass]; result is the
\* moveResult of the last strict move made ("" when none was tried), autoPass
\* tells that the opponent's pass was played first.
Play(r, color, x, y) ==
    IF ~checkPlayArgs(r.board, color, x, y)
    THEN [ r |-> r, ok |-> FALSE, message |-> "invalid args", captures |-> 0,
           result |-> "", autoPass |-> FALSE ]
    ELSE IF ~isMyTurn(r.board, color)
    THEN playAfterPass(robotMakeMove(r, PASS), makePtOf(r.board.size, x, y), TRUE)
    ELSE playResult(robotMakeMove(r, makePtOf(r.board.size, x, y)), FALSE)

\* ---------------------------------------------------------------------------
\* The slices of the two boards (board struct, board.clearBoard,
\* board.copyFrom): a heap of backing arrays, a slice being the index of its
\* array. moves is kept as its live prefix.
\* ---------------------------------------------------------------------------

\* make([]T, n) followed by the writes that give the array its contents
heapMake(h, contents) == Append(h, contents)

\* b.clearBoard on the heap h, the cleared board having the contents of b:
\* [h, slices]
heapClearBoard(h, b) ==
    [ h |-> heapMake(heapMake(heapMake(h, b.cells), b.neighborCounts), b.moves),
      slices |-> [ cells |-> Len(h) + 1, neighborCounts |-> Len(h) + 2, moves |-> Len(h) + 3 ] ]

\* r.board.clearBoard, r.scratchBoard.clearBoard and the make of
\* r.boardHashes: [h, board, scratchBoard, boardHashes]
heapAfterScratch(cleared, sc, hashes) ==
    [ h |-> heapMake(sc.h, hashes), board |-> cleared.slices, scratchBoard |-> sc.slices,
      boardHashes |-> Len(sc.h) + 1 ]

heapAfterBoard(cleared, sb, hashes) ==
    heapAfterScratch(cleared, heapClearBoard(cleared.h, sb), hashes)

heapSetBoardSize(b, sb, hashes) == heapAfterBoard(heapClearBoard(<< >>, b), sb, hashes)

\* the board read through its slices
heapRead(h, slices) ==
    [ cells |-> h[slices.cells], neighborCounts |-> h[slices.neighborCounts],
      moves |-> h[slices.moves] ]

\* copyFrom that takes over the other board's cells slice
heapCopyFrom_shareCells(h, slices, other, size, commonMoveCount, otherMoveCount) ==
    [ h |-> [ h EXCEPT ![slices.neighborCounts] =
                         [ i \in DOMAIN h[slices.neighborCounts] |->
                             IF isPlayable(size, i) THEN h[other.neighborCounts][i]
                             ELSE h[slices.neighborCounts][i] ],
                       ![slices.moves] =
                         [ i \in 1..otherMoveCount |->
                             IF i <= commonMoveCount THEN h[slices.moves][i]
                             ELSE h[other.moves][i] ] ],
      slices |-> [ slices EXCEPT !.cells = other.cells ] ]

\* b.copyFrom(other) on the heap: [h, slices]
heapCopyFrom(h, slices, other, size, commonMoveCount, otherMoveCount) ==
    [ h |-> [ h EXCEPT ![slices.cells] =
                         [ i \in DOMAIN h[slices.cells] |->
                             IF isPlayable(size, i) THEN h[other.cells][i]
                             ELSE h[slices.cells][i] ],
                       ![slices.neighborCounts] =
                         [ i \in DOMAIN h[slices.neighborCounts] |->
                             IF isPlayable(size, i) THEN h[other.neighborCounts][i]
                             ELSE h[slices.neighborCounts][i] ],
                       ![slices.moves] =
                         [ i \in 1..otherMoveCount |->
                             IF i <= commonMoveCount THEN h[slices.moves][i]
                             ELSE h[other.moves][i] ] ],
      slices |-> slices ]

\* the writes of a move at pt through the slices: the cell, its neighbour
\* count and the next entry of the move list
heapMove(h, slices, pt) ==
    [ h EXCEPT ![slices.cells] = [ @ EXCEPT ![pt] = xorInChain(@) ],
               ![slices.neighborCounts] = [ @ EXCEPT ![pt] = @ + 1 ],
               ![slices.moves] = Append(@, pt) ]

\* r.wins, r.hits after SetBoardSize: one zero per cell
zeroStats(size) == [ i \in 0..(cellsLen(size) - 1) |-> 0 ]

\* ---------------------------------------------------------------------------
\* Playouts and move generation
\* (board.playRandomGame, board.getEasyScore, robot.findWins, robot.GenMove)
\* g = [color, sample, candidates, candCount, playedCount, passedCount, i]
\* holds the locals of the running GenMove: the colour asked for, the index
\* of the sample, and the candidate list and counters of playRandomGame.
\* Indices are the code's (from 0); sequences are indexed from 1.
\* ---------------------------------------------------------------------------

genIdle == [ color |-> "", sample |-> 0, candidates |-> << >>, candCount |-> 0,
             playedCount |-> 0, passedCount |-> 0, i |-> 0 ]

\* a move limit of twice the number of points
maxPlayoutMoves_twice(size) == (size * size) * 2

\* maxMoves of playRandomGame
maxPlayoutMoves(size) == (size * size) * 3

RECURSIVE emptyPoints(_, _, _)
emptyPoints(b, i, acc) ==
    IF i > b.size * b.size THEN acc
    ELSE IF b.cells[allPointsOf(b.size)[i]] = EMPTY
    THEN emptyPoints(b, i + 1, Append(acc, allPointsOf(b.size)[i]))
    ELSE emptyPoints(b, i + 1, acc)

\* the head of the "captured" loop: the candidate list is filled again
withCandidates(g, cands) ==
    [ g EXCEPT !.candidates = cands, !.candCount = Len(cands),
               !.playedCount = 0, !.passedCount = 0, !.i = 0 ]

fillCandidates(b, g) == withCandidates(g, emptyPoints(b, 1, << >>))

swapCandidates(cands, i, randomIndex) ==
    [ cands EXCEPT ![randomIndex + 1] = cands[i + 1], ![i + 1] = cands[randomIndex + 1] ]

\* after b.makeMove(randomPt) = m in the playout
afterTry(g, m) ==
    IF m.result = "played"
    THEN IF m.captures > 0
         THEN [ sb |-> m.b, g |-> fillCandidates(m.b, g) ]
         ELSE [ sb |-> m.b, g |-> [ g EXCEPT !.playedCount = g.playedCount + 1,
                                             !.passedCount = 0,
                                             !.i = g.playedCount + 1 ] ]
    ELSE [ sb |-> m.b, g |-> [ g EXCEPT !.i = g.i + 1 ] ]

\* one round of the candidate loop once the candidates were swapped
tryCandidate(sb, g, randomPt) ==
    IF wouldFillEye(sb, randomPt)
    THEN [ sb |-> sb, g |-> [ g EXCEPT !.i = g.i + 1 ] ]
    ELSE afterTry(g, makeMove(sb, randomPt))

\* one round of the candidate loop with rand.Intn(candCount-i) = randomIndex - i
playoutTry(sb, g, randomIndex) ==
    tryCandidate(sb, [ g EXCEPT !.candidates = swapCandidates(g.candidates, g.i, randomIndex) ],
                 g.candidates[randomIndex + 1])

\* the playout that is over with its first pass
playoutPass_singlePass(g, m) ==
    [ sb |-> m.b,
      g |-> [ g EXCEPT !.passedCount = g.passedCount + 1, !.i = g.playedCount ],
      over |-> g.passedCount + 1 >= 1 ]

\* the pass made when no candidate was suitable; m = sb.makeMove(PASS)
playoutPass(g, m) ==
    [ sb |-> m.b,
      g |-> [ g EXCEPT !.passedCount = g.passedCount + 1, !.i = g.playedCount ],
      over |-> g.passedCount + 1 = 2 ]

\* generateAllGames of the tests: playRandomGame from (sb, g) once for every
\* sequence of outputs of the odometer fakeRandomness, which branches where
\* Intn is asked to choose among more than one alternative; the result lists
\* the final board of every game
RECURSIVE gamesFrom(_, _), gamesTrying(_, _, _)
gamesAfterTry(t) == gamesFrom(t.sb, t.g)

gamesAfterPass(t) == IF t.over THEN << t.sb >> ELSE gamesFrom(t.sb, t.g)

gamesTrying(sb, g, randomIndex) ==
    IF randomIndex >= g.candCount THEN << >>
    ELSE gamesAfterTry(playoutTry(sb, g, randomIndex)) \o gamesTrying(sb, g, randomIndex + 1)

gamesFrom(sb, g) ==
    IF sb.moveCount >= maxPlayoutMoves(sb.size) THEN << sb >>
    ELSE IF g.i < g.candCount THEN gamesTrying(sb, g, g.i)
    ELSE gamesAfterPass(playoutPass(g, makeMove(sb, PASS)))

generateAllGames(size) ==
    gamesFrom(clearedBoard(size), fillCandidates(clearedBoard(size), genIdle))

\* a | b on the bits of a cell
eitherBit(a, b, bit) ==
    IF (a \div bit) % 2 = 1 \/ (b \div bit) % 2 = 1 THEN bit ELSE 0

orCells(a, b) ==
    eitherBit(a, b, 1) + eitherBit(a, b, 2) + eitherBit(a, b, 4) + eitherBit(a, b, 8)
      + eitherBit(a, b, 16) + eitherBit(a, b, 32) + eitherBit(a, b, 64)

\* the neighbours of pt added up instead of OR-ed
neighborBits_sum(b, pt) ==
    b.cells[pt + dirOffset(b.size)[1]] + b.cells[pt + dirOffset(b.size)[2]]
      + b.cells[pt + dirOffset(b.size)[3]] + b.cells[pt + dirOffset(b.size)[4]]

\* neighborBits of getEasyScore for the empty point pt
neighborBits(b, pt) ==
    orCells(orCells(orCells(orCells(0, b.cells[pt + dirOffset(b.size)[1]]),
                            b.cells[pt + dirOffset(b.size)[2]]),
                    b.cells[pt + dirOffset(b.size)[3]]),
            b.cells[pt + dirOffset(b.size)[4]])

\* cellCounts[k] of getEasyScore; neighborBits & 3 is neighborBits % 4
cellCounts(b, k) ==
    Cardinality({ pt \in SeqRange(allPointsOf(b.size)) :
                    \/ b.cells[pt] \in {BLACK, WHITE} /\ b.cells[pt] = k
                    \/ b.cells[pt] = EMPTY /\ neighborBits(b, pt) % 4 = k })

\* board.getEasyScore
getEasyScore(b) == cellCounts(b, BLACK) - cellCounts(b, WHITE)

\* the winAmount without the negation for White
winAmountOf_blackView(score, komi2, friendlyStone) ==
    IF 2 * score > komi2 THEN 1 ELSE IF 2 * score < komi2 THEN -1 ELSE 0

\* winAmount of findWins; komi2 is twice the komi
winAmountOf(score, komi2, friendlyStone) ==
    (IF friendlyStone = WHITE THEN -1 ELSE 1)
      * (IF 2 * score > komi2 THEN 1 ELSE IF 2 * score < komi2 THEN -1 ELSE 0)

\* the "scoring" loop of findWins from move index i on;
\* st = [wins, hits, updated]
RECURSIVE scoring(_, _, _, _)
scoring(st, sb, i, winAmount) ==
    IF i >= sb.moveCount THEN st
    ELSE IF st.updated[moveToPt(sb.moves[i + 1])] # 0
    THEN scoring(st, sb, i + 2, winAmount)
    ELSE scoring([ wins |-> [ st.wins EXCEPT ![moveToPt(sb.moves[i + 1])] = @ + winAmount ],
                   hits |-> [ st.hits EXCEPT ![moveToPt(sb.moves[i + 1])] = @ + 1 ],
                   updated |-> [ st.updated EXCEPT ![moveToPt(sb.moves[i + 1])] = 1 ] ],
                 sb, i + 2, winAmount)

\* findWins with a scoring loop that starts at the opponent's first move
sampleStats_fromReply(b, sb, komi2, oldWins, oldHits) ==
    scoring([ wins |-> oldWins, hits |-> oldHits, updated |-> zeroStats(b.size) ],
            sb, b.moveCount + 1, winAmountOf(getEasyScore(sb), komi2, getFriendlyStone(b)))

\* the statistics after one finished sample
sampleStats(b, sb, komi2, oldWins, oldHits) ==
    scoring([ wins |-> oldWins, hits |-> oldHits, updated |-> zeroStats(b.size) ],
            sb, b.moveCount, winAmountOf(getEasyScore(sb), komi2, getFriendlyStone(b)))

\* GenMove's candidate loop from allPoints[i] on; acc = [r, candidates]
RECURSIVE genCandidates(_, _, _)
candidateChecked(acc, hitsNow, i, pt, c) ==
    genCandidates([ r |-> c.r,
                    candidates |-> IF c.result = "played" THEN Append(acc.candidates, pt)
                                   ELSE acc.candidates ],
                  hitsNow, i + 1)

genCandidates(acc, hitsNow, i) ==
    IF i > acc.r.board.size * acc.r.board.size THEN acc
    ELSE IF hitsNow[allPointsOf(acc.r.board.size)[i]] > 0
            /\ ~wouldFillEye(acc.r.board, allPointsOf(acc.r.board.size)[i])
    THEN candidateChecked(acc, hitsNow, i, allPointsOf(acc.r.board.size)[i],
                          checkLegalMove(acc.r, allPointsOf(acc.r.board.size)[i]))
    ELSE genCandidates(acc, hitsNow, i + 1)

\* the moves the "choose best move" loop can end with, from round i on, every
\* value of rand.Intn tried; the best score so far is bestWins / bestHits
RECURSIVE bestMoves(_, _, _, _, _, _, _)
\* the comparison of the "choose best move" loop with bestScore never updated
bestAfter_staleScore(cands, i, pt, bestMove, bestWins, bestHits, winsNow, hitsNow) ==
    IF winsNow[pt] * bestHits > bestWins * hitsNow[pt]
    THEN bestMoves(cands, i + 1, pt, bestWins, bestHits, winsNow, hitsNow)
    ELSE bestMoves(cands, i + 1, bestMove, bestWins, bestHits, winsNow, hitsNow)

bestAfter(cands, i, pt, bestMove, bestWins, bestHits, winsNow, hitsNow) ==
    IF winsNow[pt] * bestHits > bestWins * hitsNow[pt]
    THEN bestMoves(cands, i + 1, pt, winsNow[pt], hitsNow[pt], winsNow, hitsNow)
    ELSE bestMoves(cands, i + 1, bestMove, bestWins, bestHits, winsNow, hitsNow)

bestMoves(cands, i, bestMove, bestWins, bestHits, winsNow, hitsNow) ==
    IF i >= Len(cands) THEN { bestMove }
    ELSE UNION { bestAfter(swapCandidates(cands, i, randomIndex), i, cands[randomIndex + 1],
                           bestMove, bestWins, bestHits, winsNow, hitsNow) :
                 randomIndex \in i..(Len(cands) - 1) }

\* the score no candidate is below
lowestScore == -99

\* ---------------------------------------------------------------------------
\* State
\* ---------------------------------------------------------------------------

VARIABLES
    board,         \* r.board
    scratchBoard,  \* r.scratchBoard
    boardHashes,   \* r.boardHashes[0..moveCount)
    komi,          \* r.komi, in half points
    sampleCount,   \* r.sampleCount
    wins,          \* r.wins
    hits,          \* r.hits
    pc,            \* "idle"; "playout" and "gameOver" inside GenMove; "panic" once a
                   \* run-time panic ended the program
    gen,           \* the locals of the running GenMove
    ret,           \* the last call and what it returned
    positions,     \* history: the position after each recorded move of the game
    slaves,        \* m.slaves of the multirobot whose main robot m.mr is the robot
                   \* above: [board, scratchBoard, boardHashes, komi, wins, hits] each
    workers,       \* the goroutines of findWinsMulti: [r, pc, gen, left] each, r the
                   \* index of the slave the goroutine was given
    candidates,    \* m.mr.candidates[0], the one entry GenMove of the multirobot can
                   \* read before it is written
    gtp            \* the GTP driver: the vertex being converted, or the input left
                   \* to Run and the output written so far

vars == << board, scratchBoard, boardHashes, komi, sampleCount, wins, hits, pc, gen, ret, positions,
           slaves, workers, candidates, gtp >>

robotNow == [ board |-> board, scratchBoard |-> scratchBoard, boardHashes |-> boardHashes ]

\* the colour of every playable cell, in allPoints order
positionOf(b) == [ i \in 1..(b.size * b.size) |-> b.cells[allPointsOf(b.size)[i]] ]

\* ret: op, ok, message, result (the moveResult of the last strict move, ""
\* when none was tried), captures, autoPass (the opponent's pass was played
\* first), and for an accepted call the colour and coordinates it was made
\* with; for SetBoardSize and ClearBoard x is the size asked for
noCall == [ op |-> "new", color |-> "", x |-> 0, y |-> 0, ok |-> TRUE, message |-> "",
            result |-> "", captures |-> 0, autoPass |-> FALSE ]

\* gtp while the robot is driven directly
noDriver == [ op |-> "" ]

\* sizes given to NewRobot and SetBoardSize
Sizes == {1, 2}

\* a size SetBoardSize refuses
TooLarge == maxBoardSize + 1

\* no multirobot around the robot and no GTP driver in front of it
NoDriver ==
    /\ slaves = << >>
    /\ workers = << >>
    /\ gtp = noDriver

\* NewConfiguredRobot(Config{BoardSize: size, SampleCount: samples})
InitRobot(size, samples) ==
    /\ NoDriver
    /\ candidates = << PASS >>
    /\ board = clearedBoard(size)
    /\ scratchBoard = clearedBoard(size)
    /\ boardHashes = << >>
    /\ komi = 0
    /\ sampleCount = samples
    /\ gen = genIdle
    /\ wins = zeroStats(size)
    /\ hits = zeroStats(size)
    /\ pc = "idle"
    /\ ret = noCall
    /\ positions = << >>

InitSize(size) == InitRobot(size, 1)

Init == \E size \in Sizes : InitSize(size)

\* the colour to move
moverColor(b) == IF getFriendlyStone(b) = BLACK THEN "Black" ELSE "White"

\* the game so far consists of passes
OnlyPasses(b) == \A i \in 1..b.moveCount : b.moves[i] = PASS

\* the history bound of the exploration
Explorable(b) == OnlyPasses(b) \/ b.moveCount < MaxMoves

\* coordinates offered to Play: every point, pass, and two invalid pairs
CoordInputs(size) ==
    { << x, y >> : x \in 1..size, y \in 1..size } \cup { << 0, 0 >>, << 0, 1 >>, << size + 1, 1 >> }

\* the history of positions after a call that left the board as b1: a pass
\* inserted before the last move did not change the position
positionsAfter(b0, b1, old) ==
    [ i \in 1..b1.moveCount |->
        IF i <= Len(old) THEN old[i]
        ELSE IF i < b1.moveCount THEN positionOf(b0)
        ELSE positionOf(b1) ]

\* ---------------------------------------------------------------------------
\* Actions
\* ---------------------------------------------------------------------------

\* clearBoard that refuses no size
sizeRefused_never(newSize) == FALSE

\* the size check of clearBoard
sizeRefused(newSize) == newSize > maxBoardSize

\* SetBoardSize that keeps the hash history of the earlier game
DoSetBoardSize_keepHashes(newSize, opName) ==
    /\ pc = "idle"
    /\ IF sizeRefused(newSize)
       THEN /\ UNCHANGED << board, scratchBoard, boardHashes, wins, hits, positions >>
            /\ ret' = [ noCall EXCEPT !.op = opName, !.x = newSize, !.ok = FALSE ]
       ELSE /\ board' = clearedBoard(newSize)
            /\ scratchBoard' = clearedBoard(newSize)
            /\ boardHashes' = boardHashes
            /\ wins' = zeroStats(newSize)
            /\ hits' = zeroStats(newSize)
            /\ positions' = << >>
            /\ ret' = [ noCall EXCEPT !.op = opName, !.x = newSize, !.ok = TRUE ]
    /\ UNCHANGED << komi, sampleCount, pc, gen, slaves, workers, candidates, gtp >>

DoSetBoardSize(newSize, opName) ==
    /\ pc = "idle"
    /\ IF sizeRefused(newSize)
       THEN /\ UNCHANGED << board, scratchBoard, boardHashes, wins, hits, positions >>
            /\ ret' = [ noCall EXCEPT !.op = opName, !.x = newSize, !.ok = FALSE ]
       ELSE /\ board' = clearedBoard(newSize)
            /\ scratchBoard' = clearedBoard(newSize)
            /\ boardHashes' = << >>
            /\ wins' = zeroStats(newSize)
            /\ hits' = zeroStats(newSize)
            /\ positions' = << >>
            /\ ret' = [ noCall EXCEPT !.op = opName, !.x = newSize, !.ok = TRUE ]
    /\ UNCHANGED << komi, sampleCount, pc, gen, slaves, workers, candidates, gtp >>

\* the sizes asked for: the sizes of the games, 0 and a size that is refused
SizeInputs == Sizes \cup {0, TooLarge}

SetBoardSize == \E newSize \in SizeInputs : DoSetBoardSize(newSize, "SetBoardSize")

ClearBoard == DoSetBoardSize(board.size, "ClearBoard")

DoPlay(color, x, y) ==
    /\ pc = "idle"
    /\ Explorable(board)
    /\ \E p \in { Play(robotNow, color, x, y) } :
          /\ board' = p.r.board
          /\ scratchBoard' = p.r.scratchBoard
          /\ boardHashes' = p.r.boardHashes
          /\ positions' = positionsAfter(board, p.r.board, positions)
          /\ pc' = IF p.result = "panic" THEN "panic" ELSE "idle"
          /\ ret' = [ op |-> "Play",
                      color |-> IF p.ok THEN color ELSE "",
                      x |-> IF p.ok THEN x ELSE 0,
                      y |-> IF p.ok THEN y ELSE 0,
                      ok |-> p.ok, message |-> p.message, result |-> p.result,
                      captures |-> p.captures, autoPass |-> p.autoPass ]
    /\ UNCHANGED << komi, sampleCount, wins, hits, gen, slaves, workers, candidates, gtp >>

PlayMove == \E color \in Colors, c \in CoordInputs(board.size) : DoPlay(color, c[1], c[2])

PlayEmptyColor == DoPlay("Empty", 1, 1)

Next == SetBoardSize \/ ClearBoard \/ PlayMove \/ PlayEmptyColor

Spec == Init /\ [][Next]_vars

\* ---------------------------------------------------------------------------
\* The board driven directly through board.makeMove (as the playouts and the
\* board tests do), without superko: a size-3 board, the stones placed in
\* the corner where a ko, a suicide and captures of one and more stones fit.
\* ---------------------------------------------------------------------------

KoSizes == {3}

\* a1, b1, c1, a2, b2
KoCorner(size) == { makePtOf(size, 1, 1), makePtOf(size, 2, 1), makePtOf(size, 3, 1),
                   makePtOf(size, 1, 2), makePtOf(size, 2, 2) }

InitBoard == \E size \in KoSizes : InitSize(size)

BoardMakeMove ==
    /\ pc = "idle"
    /\ board.moveCount < MaxBoardMoves
    /\ \E move \in KoCorner(board.size) \cup {PASS} :
         \E m \in { makeMove(board, move) } :
            /\ board' = m.b
            /\ ret' = [ noCall EXCEPT !.op = "makeMove", !.ok = okResult(m.result),
                                      !.result = m.result, !.captures = m.captures ]
    /\ UNCHANGED << scratchBoard, boardHashes, komi, sampleCount, wins, hits, pc, gen, positions,
                    slaves, workers, candidates, gtp >>

BoardClear ==
    /\ pc = "idle"
    /\ board' = clearedBoard(board.size)
    /\ ret' = [ noCall EXCEPT !.op = "clearBoard" ]
    /\ UNCHANGED << scratchBoard, boardHashes, komi, sampleCount, wins, hits, pc, gen, positions,
                    slaves, workers, candidates, gtp >>

NextBoard == BoardMakeMove \/ BoardClear

SpecBoard == InitBoard /\ [][NextBoard]_vars

\* ---------------------------------------------------------------------------
\* The board alone around eyes: the 3x3 corner for eyes on the border, and a
\* 4x4 board on which Black surrounds b2 and a1 while White plays next to them.
\* ---------------------------------------------------------------------------

MaxBorderMoves == 6
MaxEyeMoves == 8

EyeSizes == {3, 4}

\* Black: a2, c2, b1, b3; White: c3, a3, b2 or a pass
EyeMoves(b) ==
    IF b.size = 3 THEN KoCorner(b.size) \cup {PASS}
    ELSE IF getFriendlyStone(b) = BLACK
    THEN { makePtOf(b.size, 1, 2), makePtOf(b.size, 3, 2),
           makePtOf(b.size, 2, 1), makePtOf(b.size, 2, 3) }
    ELSE { makePtOf(b.size, 3, 3), makePtOf(b.size, 1, 3), makePtOf(b.size, 2, 2), PASS }

InitEye == \E size \in EyeSizes : InitSize(size)

EyeMakeMove ==
    /\ pc = "idle"
    /\ board.moveCount < (IF board.size = 3 THEN MaxBorderMoves ELSE MaxEyeMoves)
    /\ \E move \in EyeMoves(board) :
         \E m \in { makeMove(board, move) } :
            /\ board' = m.b
            /\ ret' = [ noCall EXCEPT !.op = "makeMove", !.ok = okResult(m.result),
                                      !.result = m.result, !.captures = m.captures ]
    /\ UNCHANGED << scratchBoard, boardHashes, komi, sampleCount, wins, hits, pc, gen, positions,
                    slaves, workers, candidates, gtp >>

NextEye == EyeMakeMove \/ BoardClear

SpecEye == InitEye /\ [][NextEye]_vars

\* ---------------------------------------------------------------------------
\* The robot asked to generate moves: Play, SetKomi, ClearBoard and GenMove,
\* whose playouts run one candidate at a time. Moves are generated on the
\* boards of the sizes in GenMoveSizes; the size-3 board is played on in turn in
\* the corner where a ko fits.
\* ---------------------------------------------------------------------------

\* the board sizes moves are generated on
GenMoveSizes == {1, 2}

\* komi values given to SetKomi, in half points: 0 and 0.5
KomiInputs == {0, 1}

\* the board sizes on which a komi is set, before the first move
KomiSizes == {1}

\* Config.BoardSize and Config.SampleCount of the robots
GenConfigs == { << 1, 1 >>, << 1, 2 >>, << 2, 1 >>, << 3, 1 >> }

InitGen == \E config \in GenConfigs : InitRobot(config[1], config[2])

\* no move was generated since the board was cleared: the position is set up
\* with Play before moves are generated
SettingUp == hits = zeroStats(board.size)

\* the history bound of the exploration on the small boards
GenExplorable(b) == OnlyPasses(b) \/ b.moveCount < MaxGenMoves

GenPlay ==
    /\ board.size \in GenMoveSizes
    /\ SettingUp
    /\ GenExplorable(board)
    /\ \E color \in Colors, c \in CoordInputs(board.size) : DoPlay(color, c[1], c[2])

GenPlayKo ==
    /\ board.size \in KoSizes
    /\ board.moveCount < MaxKoMoves
    /\ \E move \in KoCorner(board.size) \cup {PASS} :
         DoPlay(moverColor(board), getCoords(board.size, move).x, getCoords(board.size, move).y)

SetKomi ==
    /\ pc = "idle"
    /\ board.moveCount = 0
    /\ board.size \in KomiSizes
    /\ \E value \in KomiInputs : komi' = value
    /\ ret' = [ noCall EXCEPT !.op = "SetKomi" ]
    /\ UNCHANGED << board, scratchBoard, boardHashes, sampleCount, wins, hits, pc, gen, positions,
                    slaves, workers, candidates, gtp >>

\* GenMove up to the first candidate list of the first playout;
\* p is the opponent's pass when color is not to move
GenMoveBegin(color, r, passed) ==
    /\ board' = r.board
    /\ boardHashes' = r.boardHashes
    /\ positions' = positionsAfter(board, r.board, positions)
    /\ IF ~passed
       THEN /\ pc' = "panic"
            /\ ret' = [ noCall EXCEPT !.op = "GenMove", !.ok = FALSE, !.result = "panic" ]
            /\ scratchBoard' = r.scratchBoard
            /\ UNCHANGED << wins, hits, gen >>
       ELSE /\ pc' = "playout"
            /\ wins' = zeroStats(board.size)
            /\ hits' = zeroStats(board.size)
            /\ \E sb \in { copyFrom(r.scratchBoard, r.board) } :
                 /\ scratchBoard' = sb
                 /\ gen' = fillCandidates(sb, [ genIdle EXCEPT !.color = color ])
            /\ ret' = [ noCall EXCEPT !.op = "GenMove", !.color = color, !.result = "running" ]
    /\ UNCHANGED << komi, sampleCount, slaves, workers, candidates, gtp >>

GenMoveStart ==
    /\ pc = "idle"
    /\ board.size \in GenMoveSizes
    /\ GenExplorable(board)
    /\ \E color \in Colors :
         IF isMyTurn(board, color)
         THEN GenMoveBegin(color, robotNow, TRUE)
         ELSE \E p \in { Play(robotNow, GetOpponent(color), 0, 0) } :
                 GenMoveBegin(color, p.r, p.ok)

PlayoutTry ==
    /\ pc = "playout"
    /\ scratchBoard.moveCount < maxPlayoutMoves(scratchBoard.size)
    /\ gen.i < gen.candCount
    /\ \E randomIndex \in gen.i..(gen.candCount - 1) :
         \E t \in { playoutTry(scratchBoard, gen, randomIndex) } :
            /\ scratchBoard' = t.sb
            /\ gen' = t.g
    /\ UNCHANGED << board, boardHashes, komi, sampleCount, wins, hits, pc, ret, positions,
                    slaves, workers, candidates, gtp >>

PlayoutPass ==
    /\ pc = "playout"
    /\ scratchBoard.moveCount < maxPlayoutMoves(scratchBoard.size)
    /\ gen.i >= gen.candCount
    /\ \E t \in { playoutPass(gen, makeMove(scratchBoard, PASS)) } :
         /\ scratchBoard' = t.sb
         /\ gen' = t.g
         /\ pc' = IF t.over THEN "gameOver" ELSE "playout"
    /\ UNCHANGED << board, boardHashes, komi, sampleCount, wins, hits, ret, positions,
                    slaves, workers, candidates, gtp >>

\* the game is stopped at maxMoves
PlayoutStop ==
    /\ pc = "playout"
    /\ scratchBoard.moveCount >= maxPlayoutMoves(scratchBoard.size)
    /\ pc' = "gameOver"
    /\ UNCHANGED << board, scratchBoard, boardHashes, komi, sampleCount, wins, hits, gen, ret, positions,
                    slaves, workers, candidates, gtp >>

\* findWins counts the finished sample and starts the next one
NextSample ==
    /\ pc = "gameOver"
    /\ gen.sample + 1 < sampleCount
    /\ \E st \in { sampleStats(board, scratchBoard, komi, wins, hits) } :
         /\ wins' = st.wins
         /\ hits' = st.hits
    /\ \E sb \in { copyFrom(scratchBoard, board) } :
         /\ scratchBoard' = sb
         /\ gen' = fillCandidates(sb, [ gen EXCEPT !.sample = gen.sample + 1 ])
    /\ pc' = "playout"
    /\ UNCHANGED << board, boardHashes, komi, sampleCount, ret, positions,
                    slaves, workers, candidates, gtp >>

\* GenMove makes bestMove; m = r.makeMove(bestMove)
GenMoveEnd(bestMove, m) ==
    /\ board' = m.r.board
    /\ scratchBoard' = m.r.scratchBoard
    /\ boardHashes' = m.r.boardHashes
    /\ positions' = positionsAfter(board, m.r.board, positions)
    /\ pc' = IF m.result \in {"played", "passed"} THEN "idle" ELSE "panic"
    /\ ret' = [ op |-> "GenMove", color |-> gen.color,
                x |-> IF m.result = "played" THEN getCoords(board.size, bestMove).x ELSE 0,
                y |-> IF m.result = "played" THEN getCoords(board.size, bestMove).y ELSE 0,
                ok |-> m.result \in {"played", "passed"}, message |-> "",
                result |-> m.result, captures |-> m.captures, autoPass |-> FALSE ]

\* findWins counts the last sample; GenMove lists its candidates, chooses
\* and makes its move
ChooseMove ==
    /\ pc = "gameOver"
    /\ gen.sample + 1 >= sampleCount
    /\ \E st \in { sampleStats(board, scratchBoard, komi, wins, hits) } :
         /\ wins' = st.wins
         /\ hits' = st.hits
         /\ \E acc \in { genCandidates([ r |-> robotNow, candidates |-> << >> ], st.hits, 1) } :
              \E bestMove \in bestMoves(acc.candidates, 0, PASS, lowestScore, 1, st.wins, st.hits) :
                 GenMoveEnd(bestMove, robotMakeMove(acc.r, bestMove))
    /\ gen' = genIdle
    /\ UNCHANGED << komi, sampleCount, slaves, workers, candidates, gtp >>

NextGen ==
    \/ GenPlay
    \/ GenPlayKo
    \/ SetKomi
    \/ ClearBoard
    \/ GenMoveStart
    \/ PlayoutTry
    \/ PlayoutPass
    \/ PlayoutStop
    \/ NextSample
    \/ ChooseMove

SpecGen == InitGen /\ [][NextGen]_vars

\* one round of the loops of playRandomGame
PlayoutStep == PlayoutTry \/ PlayoutPass \/ PlayoutStop

\* playRandomGame is one call: once begun, its loops keep running. This is
\* weak fairness of PlayoutStep, which is enabled exactly when pc = "playout".
SpecGenFair ==
    /\ SpecGen
    /\ ([]<>(pc # "playout") \/ []<><<PlayoutStep>>_vars)

\* ---------------------------------------------------------------------------
\* The robot estimating every move from several playouts: robots configured
\* with two samples, asked for the first move of a game.
\* ---------------------------------------------------------------------------

\* Config.BoardSize and Config.SampleCount of the robots
SamplesConfigs == { << 1, 2 >>, << 2, 2 >> }

InitSamples == \E config \in SamplesConfigs : InitRobot(config[1], config[2])

FirstGenMove ==
    /\ board.moveCount = 0
    /\ GenMoveStart

\* the komi values of these robots, in half points
SamplesKomi == {-1, 0, 1}

\* SetKomi before the first generated move
FirstSetKomi ==
    /\ pc = "idle"
    /\ board.moveCount = 0
    /\ board.size \in KomiSizes
    /\ SettingUp
    /\ \E value \in SamplesKomi : komi' = value
    /\ ret' = [ noCall EXCEPT !.op = "SetKomi" ]
    /\ UNCHANGED << board, scratchBoard, boardHashes, sampleCount, wins, hits, pc, gen, positions,
                    slaves, workers, candidates, gtp >>

NextSamples ==
    \/ FirstSetKomi
    \/ FirstGenMove
    \/ PlayoutTry
    \/ PlayoutPass
    \/ PlayoutStop
    \/ NextSample
    \/ ChooseMove
    \/ ClearBoard

SpecSamples == InitSamples /\ [][NextSamples]_vars

\* ---------------------------------------------------------------------------
\* The multirobot (multirobot.go): a main robot m.mr, held by the variables of
\* the robot, and one slave robot per cpu. newRobot is NewConfiguredRobot, and
\* r.findWins(n), r.makeMove, r.SetBoardSize and r.Play are those of robot.
\* e = [board, scratchBoard, boardHashes, komi, wins, hits] is a slave.
\* ---------------------------------------------------------------------------

\* moves of a game explored with the multirobot, and moves a game is set up with
MaxMultiMoves == 4

MaxSetupMoves == 2

masterNow == [ board |-> board, scratchBoard |-> scratchBoard, boardHashes |-> boardHashes,
               komi |-> komi ]

newSlave(size) ==
    [ board |-> clearedBoard(size), scratchBoard |-> clearedBoard(size), boardHashes |-> << >>,
      komi |-> 0, wins |-> zeroStats(size), hits |-> zeroStats(size) ]

\* robot.copyFrom of the multirobot
robotCopyFrom(e, other) ==
    [ e EXCEPT !.boardHashes = other.boardHashes,
               !.board = copyFrom([ e.board EXCEPT !.commonMoveCount = other.board.commonMoveCount ],
                                  other.board),
               !.scratchBoard = copyFrom(e.scratchBoard, other.board),
               !.komi = other.komi ]

syncSlaves(sl, other) == [ k \in DOMAIN sl |-> robotCopyFrom(sl[k], other) ]

\* r.makeMove(r.board.makePt(x, y)) on every slave, the results dropped
slavesMove(sl, x, y) ==
    [ k \in DOMAIN sl |-> robotMakeMove(sl[k], makePtOf(sl[k].board.size, x, y)).r ]

\* a slave's r.makeMove panicked
slavesPanic(sl, x, y) ==
    \E k \in DOMAIN sl : robotMakeMove(sl[k], makePtOf(sl[k].board.size, x, y)).result = "panic"

\* SetBoardSize of a slave, for a size that is not refused
slaveCleared(e, newSize) ==
    [ e EXCEPT !.board = clearedBoard(newSize), !.scratchBoard = clearedBoard(newSize),
               !.boardHashes = << >>, !.wins = zeroStats(newSize), !.hits = zeroStats(newSize) ]

\* the samples of each goroutine: (numSamples / len(m.slaves)) + 1
samplesEach(numSamples, count) == (numSamples \div count) + 1

\* a master that goes on after the first goroutine reported
receivesNeeded_one(count) == 1

\* the receives from done the master waits for
receivesNeeded(count) == count

\* "collect results": the statistics of the slaves added up, slave by slave
RECURSIVE collectStats(_, _, _)
collectStats(sl, k, st) ==
    IF k > Len(sl) THEN st
    ELSE collectStats(sl, k + 1,
                      [ wins |-> [ j \in DOMAIN st.wins |-> st.wins[j] + sl[k].wins[j] ],
                        hits |-> [ j \in DOMAIN st.hits |-> st.hits[j] + sl[k].hits[j] ] ])

\* sortfunc(p1, p2) of genMovesMulti, the ratios compared as fractions
sortsBefore(p1, p2, w, h) ==
    IF w[p1] * h[p2] = w[p2] * h[p1] THEN h[p1] > h[p2]
    ELSE w[p1] * h[p2] > w[p2] * h[p1]

\* the points the sort can leave in candidates[0]
sortedFirst(cands, w, h) ==
    { p \in SeqRange(cands) : \A q \in SeqRange(cands) : ~sortsBefore(q, p, w, h) }

\* m.mr.candidates[0] after genMovesMulti found cands: it is written only when
\* a candidate was found
firstCandidates(cands, w, h, old) ==
    IF Len(cands) = 0 THEN { old } ELSE { << p >> : p \in sortedFirst(cands, w, h) }

\* the MoveResult GenMove of the multirobot returns with its coordinates; the
\* named results keep their zero values, and Played is 0
multiGenResult(size, bestMove, result) ==
    IF result = "played"
    THEN [ x |-> getCoords(size, bestMove).x, y |-> getCoords(size, bestMove).y, moveResult |-> "Played" ]
    ELSE IF result = "passed"
    THEN [ x |-> 0, y |-> 0, moveResult |-> "Passed" ]
    ELSE [ x |-> 0, y |-> 0, moveResult |-> "Played" ]

\* Config.BoardSize, Config.SampleCount and the number of cpus
MultiConfigs == { << 1, 1, 2 >>, << 2, 1, 1 >> }

\* newConfiguredMultiRobot
InitMulti ==
    \E config \in MultiConfigs :
       /\ board = clearedBoard(config[1])
       /\ scratchBoard = clearedBoard(config[1])
       /\ boardHashes = << >>
       /\ komi = 0
       /\ sampleCount = config[2]
       /\ gen = genIdle
       /\ wins = zeroStats(config[1])
       /\ hits = zeroStats(config[1])
       /\ pc = "idle"
       /\ ret = noCall
       /\ positions = << >>
       /\ slaves = [ k \in 1..config[3] |-> newSlave(config[1]) ]
       /\ workers = << >>
       /\ candidates = << PASS >>
       /\ gtp = noDriver

\* coordinates offered to Play of the multirobot: a corner, pass, and a pair
\* off the board
MultiCoordInputs == { << 1, 1 >>, << 0, 0 >>, << 0, 1 >> }

\* multirobot.Play
MultiPlay ==
    /\ pc = "idle"
    /\ SettingUp
    /\ board.moveCount < MaxSetupMoves
    /\ \E color \in Colors, c \in MultiCoordInputs :
         \E m \in { robotMakeMove(robotNow, makePtOf(board.size, c[1], c[2])) } :
            /\ slaves' = slavesMove(slaves, c[1], c[2])
            /\ board' = m.r.board
            /\ scratchBoard' = m.r.scratchBoard
            /\ boardHashes' = m.r.boardHashes
            /\ positions' = positionsAfter(board, m.r.board, positions)
            /\ pc' = IF m.result = "panic" \/ slavesPanic(slaves, c[1], c[2]) THEN "panic" ELSE "idle"
            /\ ret' = [ op |-> "Play", color |-> color, x |-> c[1], y |-> c[2],
                        ok |-> toPlayResult(m.result, m.captures).ok,
                        message |-> toPlayResult(m.result, m.captures).message,
                        result |-> m.result,
                        captures |-> toPlayResult(m.result, m.captures).captures,
                        autoPass |-> FALSE ]
    /\ UNCHANGED << komi, sampleCount, wins, hits, gen, workers, candidates, gtp >>

\* multirobot.SetBoardSize; ClearBoard is SetBoardSize(r.board.size) on the
\* main robot and on every slave
MultiDoSetBoardSize(newSize, opName) ==
    /\ pc = "idle"
    /\ IF sizeRefused(newSize)
       THEN /\ UNCHANGED << board, scratchBoard, boardHashes, wins, hits, positions, slaves, candidates >>
            /\ ret' = [ noCall EXCEPT !.op = opName, !.x = newSize, !.ok = FALSE ]
       ELSE /\ board' = clearedBoard(newSize)
            /\ scratchBoard' = clearedBoard(newSize)
            /\ boardHashes' = << >>
            /\ wins' = zeroStats(newSize)
            /\ hits' = zeroStats(newSize)
            /\ positions' = << >>
            /\ candidates' = << PASS >>
            /\ slaves' = [ k \in DOMAIN slaves |-> slaveCleared(slaves[k], newSize) ]
            /\ ret' = [ noCall EXCEPT !.op = opName, !.x = newSize, !.ok = TRUE ]
    /\ UNCHANGED << komi, sampleCount, pc, gen, workers, gtp >>

MultiSetBoardSize == \E newSize \in {board.size, TooLarge} : MultiDoSetBoardSize(newSize, "SetBoardSize")

MultiClearBoard == MultiDoSetBoardSize(board.size, "ClearBoard")

\* multirobot.SetKomi
MultiSetKomi ==
    /\ pc = "idle"
    /\ board.moveCount = 0
    /\ board.size \in KomiSizes
    /\ SettingUp
    /\ \E value \in SamplesKomi :
         /\ komi' = value
         /\ slaves' = [ k \in DOMAIN slaves |-> [ slaves[k] EXCEPT !.komi = value ] ]
    /\ ret' = [ noCall EXCEPT !.op = "SetKomi" ]
    /\ UNCHANGED << board, scratchBoard, boardHashes, sampleCount, wins, hits, pc, gen, positions,
                    workers, candidates, gtp >>

\* GenMove of the multirobot up to the goroutines of findWinsMulti being
\* started; p = [r, ok] is the opponent's pass when color is not to move
MultiGenMoveBegin(color, r, passed) ==
    /\ board' = r.board
    /\ scratchBoard' = r.scratchBoard
    /\ boardHashes' = r.boardHashes
    /\ positions' = positionsAfter(board, r.board, positions)
    /\ IF ~passed
       THEN /\ pc' = "panic"
            /\ ret' = [ noCall EXCEPT !.op = "GenMove", !.ok = FALSE, !.result = "panic" ]
            /\ UNCHANGED << wins, hits, gen, slaves, workers >>
       ELSE /\ pc' = "waiting"
            /\ wins' = zeroStats(board.size)
            /\ hits' = zeroStats(board.size)
            /\ slaves' = syncSlaves(slaves, [ masterNow EXCEPT !.board = r.board,
                                                               !.boardHashes = r.boardHashes ])
            /\ workers' = [ k \in DOMAIN slaves |->
                              [ r |-> k, pc |-> "findWins", gen |-> genIdle,
                                left |-> samplesEach(sampleCount, Len(slaves)) ] ]
            /\ gen' = [ genIdle EXCEPT !.color = color ]
            /\ ret' = [ noCall EXCEPT !.op = "GenMove", !.color = color, !.result = "running" ]
    /\ UNCHANGED << komi, sampleCount, candidates, gtp >>

\* the positions generated moves are asked for
MultiExplorable(b) ==
    /\ b.moveCount < MaxMultiMoves
    /\ b.size = 1 \/ \E p \in SeqRange(allPointsOf(b.size)) : b.cells[p] # EMPTY

MultiGenMoveStart ==
    /\ pc = "idle"
    /\ MultiExplorable(board)
    /\ \E color \in Colors :
         IF isMyTurn(board, color)
         THEN MultiGenMoveBegin(color, robotNow, TRUE)
         ELSE \E p \in { Play(robotNow, GetOpponent(color), 0, 0) } :
                 MultiGenMoveBegin(color, p.r, p.ok)

\* the slave a goroutine works on with its scratch board set up for a sample
sampleBegun(e) == [ e EXCEPT !.scratchBoard = copyFrom(e.scratchBoard, e.board) ]

\* a goroutine after a step of its playout; t = [sb, g]
workerAfter(w, t, nextPc) == [ w EXCEPT !.gen = t.g, !.pc = nextPc ]

\* r.findWins clears the statistics of its robot and starts the first sample
WorkerFindWins(i) ==
    /\ workers[i].pc = "findWins"
    /\ \E e \in { sampleBegun([ slaves[workers[i].r] EXCEPT
                                  !.wins = zeroStats(slaves[workers[i].r].board.size),
                                  !.hits = zeroStats(slaves[workers[i].r].board.size) ]) } :
         /\ slaves' = [ slaves EXCEPT ![workers[i].r] = e ]
         /\ workers' = [ workers EXCEPT ![i].pc = "playout",
                                        ![i].gen = fillCandidates(e.scratchBoard, genIdle) ]

WorkerTry(i) ==
    /\ workers[i].pc = "playout"
    /\ \E e \in { slaves[workers[i].r] } :
         /\ e.scratchBoard.moveCount < maxPlayoutMoves(e.scratchBoard.size)
         /\ workers[i].gen.i < workers[i].gen.candCount
         /\ \E randomIndex \in workers[i].gen.i..(workers[i].gen.candCount - 1) :
              \E t \in { playoutTry(e.scratchBoard, workers[i].gen, randomIndex) } :
                 /\ slaves' = [ slaves EXCEPT ![workers[i].r].scratchBoard = t.sb ]
                 /\ workers' = [ workers EXCEPT ![i] = workerAfter(workers[i], t, "playout") ]

WorkerPass(i) ==
    /\ workers[i].pc = "playout"
    /\ \E e \in { slaves[workers[i].r] } :
         /\ e.scratchBoard.moveCount < maxPlayoutMoves(e.scratchBoard.size)
         /\ workers[i].gen.i >= workers[i].gen.candCount
         /\ \E t \in { playoutPass(workers[i].gen, makeMove(e.scratchBoard, PASS)) } :
              /\ slaves' = [ slaves EXCEPT ![workers[i].r].scratchBoard = t.sb ]
              /\ workers' = [ workers EXCEPT ![i] =
                                workerAfter(workers[i], t, IF t.over THEN "gameOver" ELSE "playout") ]

WorkerStop(i) ==
    /\ workers[i].pc = "playout"
    /\ slaves[workers[i].r].scratchBoard.moveCount
         >= maxPlayoutMoves(slaves[workers[i].r].scratchBoard.size)
    /\ workers' = [ workers EXCEPT ![i].pc = "gameOver" ]
    /\ UNCHANGED slaves

\* findWins counts the finished sample; it starts the next one, or it returns
\* and the goroutine is at its send on done
WorkerScore(i) ==
    /\ workers[i].pc = "gameOver"
    /\ \E e \in { slaves[workers[i].r] } :
         \E st \in { sampleStats(e.board, e.scratchBoard, e.komi, e.wins, e.hits) } :
            IF workers[i].left > 1
            THEN \E e2 \in { sampleBegun([ e EXCEPT !.wins = st.wins, !.hits = st.hits ]) } :
                    /\ slaves' = [ slaves EXCEPT ![workers[i].r] = e2 ]
                    /\ workers' = [ workers EXCEPT
                                      ![i].pc = "playout",
                                      ![i].left = workers[i].left - 1,
                                      ![i].gen = fillCandidates(e2.scratchBoard, genIdle) ]
            ELSE /\ slaves' = [ slaves EXCEPT ![workers[i].r].wins = st.wins,
                                              ![workers[i].r].hits = st.hits ]
                 /\ workers' = [ workers EXCEPT ![i].pc = "send", ![i].left = 0 ]

\* a step of one goroutine
WorkerStep ==
    /\ pc = "waiting"
    /\ \E i \in DOMAIN workers :
         WorkerFindWins(i) \/ WorkerTry(i) \/ WorkerPass(i) \/ WorkerStop(i) \/ WorkerScore(i)
    /\ UNCHANGED << board, scratchBoard, boardHashes, komi, sampleCount, wins, hits, pc, gen, ret,
                    positions, candidates, gtp >>

\* "wait": the master receives from done what one goroutine sends, and the
\* goroutine ends; gen.sample counts the receives
MasterReceive ==
    /\ pc = "waiting"
    /\ gen.sample < receivesNeeded(Len(slaves))
    /\ \E i \in DOMAIN workers :
         /\ workers[i].pc = "send"
         /\ workers' = [ workers EXCEPT ![i].pc = "done" ]
    /\ gen' = [ gen EXCEPT !.sample = gen.sample + 1 ]
    /\ UNCHANGED << board, scratchBoard, boardHashes, komi, sampleCount, wins, hits, pc, ret,
                    positions, slaves, candidates, gtp >>

\* GenMove makes candidates[0]; m = m.mr.makeMove(bestMove), g is what GenMove
\* returns
MultiGenMoveEnd(first, m, g) ==
    /\ candidates' = first
    /\ board' = m.r.board
    /\ scratchBoard' = m.r.scratchBoard
    /\ boardHashes' = m.r.boardHashes
    /\ positions' = positionsAfter(board, m.r.board, positions)
    /\ slaves' = slavesMove(slaves, g.x, g.y)
    /\ pc' = IF m.result = "panic" \/ slavesPanic(slaves, g.x, g.y) THEN "panic" ELSE "idle"
    /\ ret' = [ op |-> "GenMove", color |-> gen.color, x |-> g.x, y |-> g.y,
                ok |-> okResult(m.result), message |-> g.moveResult,
                result |-> m.result, captures |-> m.captures, autoPass |-> FALSE ]

\* findWinsMulti collects the results once it received from done as often as
\* it waits for; genMovesMulti lists and sorts the candidates, and GenMove
\* makes the move on the main robot and on every slave
MultiChooseMove ==
    /\ pc = "waiting"
    /\ gen.sample >= receivesNeeded(Len(slaves))
    /\ \E st \in { collectStats(slaves, 1, [ wins |-> wins, hits |-> hits ]) } :
         /\ wins' = st.wins
         /\ hits' = st.hits
         /\ \E acc \in { genCandidates([ r |-> robotNow, candidates |-> << >> ], st.hits, 1) } :
              \E first \in firstCandidates(acc.candidates, st.wins, st.hits, candidates) :
                 \E m \in { robotMakeMove(acc.r, first[1]) } :
                    MultiGenMoveEnd(first, m, multiGenResult(board.size, first[1], m.result))
    /\ gen' = genIdle
    /\ workers' = << >>
    /\ UNCHANGED << komi, sampleCount, gtp >>

NextMulti ==
    \/ MultiPlay
    \/ MultiSetBoardSize
    \/ MultiClearBoard
    \/ MultiSetKomi
    \/ MultiGenMoveStart
    \/ WorkerStep
    \/ MasterReceive
    \/ MultiChooseMove

SpecMulti == InitMulti /\ [][NextMulti]_vars

\* ---------------------------------------------------------------------------
\* The GTP driver (gongo_gtp.go): vertices as text. A text is the sequence of
\* its bytes.
\* ---------------------------------------------------------------------------

MaxBoardSize == 25

\* the bytes 'A', 'I', '0' and '9', and the text "PASS"
charA == 65

charI == 73

char0 == 48

char9 == 57

textPASS == << 80, 65, 83, 83 >>

\* fmt's %v of an integer n >= 0
RECURSIVE decimal(_)
decimal(n) == IF n < 10 THEN << char0 + n >> ELSE Append(decimal(n \div 10), char0 + (n % 10))

\* strings.ToUpper: the bytes 'a' (97) to 'z' (122) become 'A' to 'Z'
toUpper(text) ==
    [ k \in 1..Len(text) |->
        IF text[k] >= 97 /\ text[k] <= 122 THEN text[k] - 32 ELSE text[k] ]

\* strconv.Atoi of digits with an optional minus sign (the byte 45):
\* [ok, value]
RECURSIVE digitsValue(_, _, _)
digitsValue(text, k, acc) ==
    IF k > Len(text) THEN [ ok |-> TRUE, value |-> acc ]
    ELSE IF text[k] < char0 \/ text[k] > char9 THEN [ ok |-> FALSE, value |-> 0 ]
    ELSE digitsValue(text, k + 1, acc * 10 + (text[k] - char0))

negated(a) == [ ok |-> a.ok, value |-> -a.value ]

atoi(text) ==
    IF Len(text) = 0 THEN [ ok |-> FALSE, value |-> 0 ]
    ELSE IF text[1] = 45
    THEN IF Len(text) = 1 THEN [ ok |-> FALSE, value |-> 0 ]
         ELSE negated(digitsValue(text, 2, 0))
    ELSE digitsValue(text, 1, 0)

\* a value as a byte
byteOf(n) == n % 256

\* x_letter of vertexToString
columnLetter(x) ==
    IF byteOf(x - 1 + charA) >= charI THEN byteOf(x - 2 + charA) ELSE byteOf(x - 1 + charA)

\* vertexToString: [text, ok]; the text of an invalid vertex is left out
vertexToString(x, y) ==
    IF x < 1 \/ x > MaxBoardSize \/ y < 1 \/ y > MaxBoardSize
    THEN [ text |-> << >>, ok |-> FALSE ]
    ELSE [ text |-> << columnLetter(x) >> \o decimal(y), ok |-> TRUE ]

\* stringToVertex once the text is in upper case: [x, y, ok]
upperToVertex(input, x, y) ==
    IF x < 1 \/ x > MaxBoardSize THEN [ x |-> 0, y |-> 0, ok |-> FALSE ]
    ELSE IF ~y.ok \/ y.value < 1 \/ y.value > MaxBoardSize THEN [ x |-> 0, y |-> 0, ok |-> FALSE ]
    ELSE [ x |-> x, y |-> y.value, ok |-> TRUE ]

stringToVertex(input) ==
    IF Len(input) < 2 THEN [ x |-> 0, y |-> 0, ok |-> FALSE ]
    ELSE IF toUpper(input) = textPASS THEN [ x |-> 0, y |-> 0, ok |-> TRUE ]
    ELSE upperToVertex(toUpper(input),
                       IF toUpper(input)[1] > charI THEN toUpper(input)[1] - charA
                       ELSE 1 + toUpper(input)[1] - charA,
                       atoi(SubSeq(toUpper(input), 2, Len(input))))

\* the coordinates given to vertexToString: those of every board and one
\* beyond either end
VertexInputs == 0..(MaxBoardSize + 1)

\* the first bytes of the vertices a controller sends: the capital letters,
\* 'a', 'i' and a digit
LetterInputs == (charA..(charA + 25)) \cup {97, 105, char0}

\* gtp after a conversion: the coordinates and the text it began with, and
\* what came out; a conversion begins when the last text was parsed
converted(opName, x, y, text, ok, v) ==
    [ op |-> opName, x |-> x, y |-> y, text |-> text, ok |-> ok, vertex |-> v ]

noVertex == [ x |-> 0, y |-> 0, ok |-> FALSE ]

\* handle_genmove formats the vertex the robot played
FormatVertex ==
    /\ gtp.op \notin {"vertexToString", "typed"}
    /\ \E x \in VertexInputs, y \in VertexInputs :
         gtp' = converted("vertexToString", x, y, vertexToString(x, y).text,
                          vertexToString(x, y).ok, noVertex)
    /\ UNCHANGED << board, scratchBoard, boardHashes, komi, sampleCount, wins, hits, pc, gen, ret,
                    positions, slaves, workers, candidates >>

\* the controller sends a vertex of its own
TypeVertex ==
    /\ gtp.op \notin {"vertexToString", "typed"}
    /\ \E letter \in LetterInputs, y \in VertexInputs :
         gtp' = converted("typed", 0, 0, << letter >> \o decimal(y), TRUE, noVertex)
    /\ UNCHANGED << board, scratchBoard, boardHashes, komi, sampleCount, wins, hits, pc, gen, ret,
                    positions, slaves, workers, candidates >>

\* handle_play parses the vertex it was sent: a text vertexToString made, or a
\* typed one
ParseVertex ==
    /\ gtp.op \in {"vertexToString", "typed"}
    /\ gtp.ok
    /\ gtp' = converted(IF gtp.op = "typed" THEN "stringToVertex" ELSE "roundTrip",
                        gtp.x, gtp.y, gtp.text, stringToVertex(gtp.text).ok, stringToVertex(gtp.text))
    /\ UNCHANGED << board, scratchBoard, boardHashes, komi, sampleCount, wins, hits, pc, gen, ret,
                    positions, slaves, workers, candidates >>

NextVertex == FormatVertex \/ TypeVertex \/ ParseVertex

SpecVertex == InitSize(1) /\ [][NextVertex]_vars

\* ---------------------------------------------------------------------------
\* The GTP driver (gongo_gtp.go): the command loop. A line is the sequence of
\* its tokens without the newline that ends it: " " is white space, "#" the
\* comment sign, and any other token a run of letters; a word is a sequence of
\* tokens without white space.
\* gtp = [op, in, pos, out, result]: the lines of the input, the number of
\* lines read, the responses written, and what Run returned ("" while it
\* runs, "nil", or "EOF" for the error of the reader).
\* ---------------------------------------------------------------------------

\* lines of an input
MaxLines == 3

\* strings.TrimSpace
RECURSIVE trimLeft(_), trimRight(_)
trimLeft(line) ==
    IF Len(line) > 0 /\ line[1] = " " THEN trimLeft(Tail(line)) ELSE line

trimRight(line) ==
    IF Len(line) > 0 /\ line[Len(line)] = " " THEN trimRight(SubSeq(line, 1, Len(line) - 1)) ELSE line

trimSpace(line) == trimRight(trimLeft(line))

\* words[0] of a trimmed line that is not empty: the first match of word_regexp
RECURSIVE firstWord(_, _)
firstWord(line, k) ==
    IF k > Len(line) \/ line[k] = " " THEN << >> ELSE << line[k] >> \o firstWord(line, k + 1)

\* a line parseCommand reads over
skipped(line) == IF line = << >> THEN TRUE ELSE line[1] = "#"

\* the handlers of the commands of these inputs
handlers == [ w \in { << "quit" >>, << "name" >> } |->
                IF w = << "quit" >> THEN [ message |-> "", success |-> TRUE ]
                ELSE [ message |-> "gongo", success |-> TRUE ] ]

\* a loop that goes on after quit
quitEnds_never(command) == FALSE

\* command == "quit"
quitEnds(command) == command = << "quit" >>

\* the lines a controller sends
LineInputs ==
    { << >>, << " " >>, << "#", "quit" >>, << " ", "#" >>, << "quit" >>, << " ", "quit", " " >>,
      << "quit", "#" >>, << "name", " ", "asdf" >>, << "asdf" >> }

RunInputs == UNION { [ 1..n -> LineInputs ] : n \in 0..MaxLines }

\* Run(robot, input, out) is called
InitRun ==
    /\ board = clearedBoard(1)
    /\ scratchBoard = clearedBoard(1)
    /\ boardHashes = << >>
    /\ komi = 0
    /\ sampleCount = 1
    /\ gen = genIdle
    /\ wins = zeroStats(1)
    /\ hits = zeroStats(1)
    /\ pc = "idle"
    /\ ret = noCall
    /\ positions = << >>
    /\ slaves = << >>
    /\ workers = << >>
    /\ candidates = << PASS >>
    /\ \E input \in RunInputs :
         gtp = [ op |-> "Run", in |-> input, pos |-> 0, out |-> << >>, result |-> "" ]

Running == gtp.op = "Run" /\ gtp.result = ""

\* parseCommand reads a blank line or a comment and goes on reading
RunSkipLine ==
    /\ Running
    /\ gtp.pos < Len(gtp.in)
    /\ skipped(trimSpace(gtp.in[gtp.pos + 1]))
    /\ gtp' = [ gtp EXCEPT !.pos = gtp.pos + 1 ]
    /\ UNCHANGED << board, scratchBoard, boardHashes, komi, sampleCount, wins, hits, pc, gen, ret,
                    positions, slaves, workers, candidates >>

\* the command has no handler
RunUnknown ==
    /\ Running
    /\ gtp.pos < Len(gtp.in)
    /\ \E line \in { trimSpace(gtp.in[gtp.pos + 1]) } :
         /\ ~skipped(line)
         /\ firstWord(line, 1) \notin DOMAIN handlers
         /\ gtp' = [ gtp EXCEPT !.pos = gtp.pos + 1,
                                !.out = Append(gtp.out, [ message |-> "unknown command",
                                                          success |-> FALSE ]) ]
    /\ UNCHANGED << board, scratchBoard, boardHashes, komi, sampleCount, wins, hits, pc, gen, ret,
                    positions, slaves, workers, candidates >>

\* the handler answers, and quit ends the loop
RunHandle ==
    /\ Running
    /\ gtp.pos < Len(gtp.in)
    /\ \E line \in { trimSpace(gtp.in[gtp.pos + 1]) } :
         /\ ~skipped(line)
         /\ firstWord(line, 1) \in DOMAIN handlers
         /\ gtp' = [ gtp EXCEPT !.pos = gtp.pos + 1,
                                !.out = Append(gtp.out, handlers[firstWord(line, 1)]),
                                !.result = IF quitEnds(firstWord(line, 1)) THEN "nil" ELSE "" ]
    /\ UNCHANGED << board, scratchBoard, boardHashes, komi, sampleCount, wins, hits, pc, gen, ret,
                    positions, slaves, workers, candidates >>

\* ReadString fails at the end of the input, and Run returns the error
RunEndOfInput ==
    /\ Running
    /\ gtp.pos = Len(gtp.in)
    /\ gtp' = [ gtp EXCEPT !.result = "EOF" ]
    /\ UNCHANGED << board, scratchBoard, boardHashes, komi, sampleCount, wins, hits, pc, gen, ret,
                    positions, slaves, workers, candidates >>

NextRun == RunSkipLine \/ RunUnknown \/ RunHandle \/ RunEndOfInput

\* the loop of Run goes on until it returns
SpecRun == InitRun /\ [][NextRun]_vars /\ WF_vars(NextRun)

\* ---------------------------------------------------------------------------
\* Rollouts on boards that were set up: findWins(1) of a robot whose board
\* was filled through board.makeMove, as the board tests and the benchmarks
\* drive it. On the size-3 board the stones are set up around the corner; on
\* the size-4 board a game record is replayed up to a position with four
\* Empty points.
\* ---------------------------------------------------------------------------

\* the longest set-up on the size-3 board (games of passes are set up to the
\* move limit of the rollouts)
MaxRolloutSetup == 5

\* moves of a rollout that are explored
MaxRolloutMoves == 4

RolloutSizes == {3, 4}

\* the game replayed on the size-4 board, Black first:
\* d1 a1 b4 c2 b3 c3 a2 c4 d2 d4 d3 b1
RolloutGame ==
    << << 4, 1 >>, << 1, 1 >>, << 2, 4 >>, << 3, 2 >>, << 2, 3 >>, << 3, 3 >>, << 1, 2 >>,
       << 3, 4 >>, << 4, 2 >>, << 4, 4 >>, << 4, 3 >>, << 2, 1 >> >>

\* the moves a board is set up with: on size 3 Black plays a2, b2 or c1 and
\* White a1 or a pass, and a game of passes goes on with passes; on size 4
\* the next move of the game
RolloutMoves(b) ==
    IF b.size = 3
    THEN IF OnlyPasses(b) /\ b.moveCount > 0 THEN {PASS}
         ELSE IF getFriendlyStone(b) = BLACK
         THEN { makePtOf(b.size, 1, 2), makePtOf(b.size, 2, 2), makePtOf(b.size, 3, 1), PASS }
         ELSE { makePtOf(b.size, 1, 1), PASS }
    ELSE { makePtOf(b.size, RolloutGame[i][1], RolloutGame[i][2]) :
             i \in { b.moveCount + 1 } \cap DOMAIN RolloutGame }

\* the boards rollouts are explored from: a game as long as the move limit,
\* the size-3 board on which a1, a2, b2 and c1 all hold a stone, and the
\* size-4 board at the end of the game replayed
RolloutBoard(b) ==
    IF b.moveCount >= maxPlayoutMoves(b.size) THEN TRUE
    ELSE IF b.size = 3
    THEN \A p \in { makePtOf(b.size, 1, 1), makePtOf(b.size, 1, 2),
                    makePtOf(b.size, 2, 2), makePtOf(b.size, 3, 1) } : b.cells[p] # EMPTY
    ELSE b.moveCount = Len(RolloutGame)

InitRollout == \E size \in RolloutSizes : InitSize(size)

RolloutMakeMove ==
    /\ pc = "idle"
    /\ SettingUp
    /\ IF OnlyPasses(board) /\ board.size = 3
       THEN board.moveCount < maxPlayoutMoves(board.size)
       ELSE board.size = 3 => board.moveCount < MaxRolloutSetup
    /\ \E move \in RolloutMoves(board) :
         \E m \in { makeMove(board, move) } :
            /\ board' = m.b
            /\ ret' = [ noCall EXCEPT !.op = "makeMove", !.ok = okResult(m.result),
                                      !.result = m.result, !.captures = m.captures ]
    /\ UNCHANGED << scratchBoard, boardHashes, komi, sampleCount, wins, hits, pc, gen, positions,
                    slaves, workers, candidates, gtp >>

\* findWins(1) up to the first candidate list of its rollout
RolloutFindWins ==
    /\ pc = "idle"
    /\ SettingUp
    /\ RolloutBoard(board)
    /\ wins' = zeroStats(board.size)
    /\ hits' = zeroStats(board.size)
    /\ \E sb \in { copyFrom(scratchBoard, board) } :
         /\ scratchBoard' = sb
         /\ gen' = fillCandidates(sb, [ genIdle EXCEPT !.color = moverColor(board) ])
    /\ pc' = "playout"
    /\ ret' = [ noCall EXCEPT !.op = "findWins", !.result = "running" ]
    /\ UNCHANGED << board, boardHashes, komi, sampleCount, positions, slaves, workers, candidates, gtp >>

\* the rollout is short enough to be explored
RolloutShort == scratchBoard.moveCount < board.moveCount + MaxRolloutMoves

\* findWins scores its rollout, counts it and returns
RolloutScore ==
    /\ pc = "gameOver"
    /\ \E st \in { sampleStats(board, scratchBoard, komi, wins, hits) } :
         /\ wins' = st.wins
         /\ hits' = st.hits
    /\ gen' = genIdle
    /\ pc' = "idle"
    /\ ret' = [ noCall EXCEPT !.op = "findWins", !.result = "done" ]
    /\ UNCHANGED << board, scratchBoard, boardHashes, komi, sampleCount, positions,
                    slaves, workers, candidates, gtp >>

NextRollout ==
    \/ RolloutMakeMove
    \/ RolloutFindWins
    \/ (RolloutShort /\ PlayoutTry)
    \/ (RolloutShort /\ PlayoutPass)
    \/ PlayoutStop
    \/ RolloutScore
    \/ BoardClear

SpecRollout == InitRollout /\ [][NextRollout]_vars

\* ---------------------------------------------------------------------------
\* The neighbours of a point on cleared boards of every size: the reads
\* b.cells[pt + b.dirOffset[dir]] and b.cells[pt + b.diagOffset[dir]] that
\* makeMove, wouldFillEye and getEasyScore make without a bounds check.
\* gtp holds the last read.
\* ---------------------------------------------------------------------------

GeometrySizes == 1..maxBoardSize

\* the eight offsets: right, left, up, down, nw, ne, sw, se
neighborOffset(size, dir) ==
    IF dir <= 4 THEN dirOffset(size)[dir] ELSE diagOffset(size)[dir - 4]

\* cells[index], or the run-time panic of an index outside the array
cellAt(cells, index) ==
    IF index \in DOMAIN cells THEN cells[index] ELSE -1

InitGeometry == InitSize(1)

GeometrySetBoardSize ==
    /\ gtp = noDriver
    /\ \E newSize \in GeometrySizes : DoSetBoardSize(newSize, "SetBoardSize")

NeighborCell ==
    /\ pc = "idle"
    /\ gtp = noDriver
    /\ \E i \in 1..(board.size * board.size), dir \in 1..8 :
         \E pt \in { allPointsOf(board.size)[i] } :
            gtp' = [ op |-> "neighbor", pt |-> pt, dir |-> dir,
                     index |-> pt + neighborOffset(board.size, dir),
                     cell |-> cellAt(board.cells, pt + neighborOffset(board.size, dir)),
                     len |-> Cardinality(DOMAIN board.cells) ]
    /\ UNCHANGED << board, scratchBoard, boardHashes, komi, sampleCount, wins, hits, pc, gen, ret,
                    positions, slaves, workers, candidates >>

NextGeometry == GeometrySetBoardSize \/ NeighborCell

SpecGeometry == InitGeometry /\ [][NextGeometry]_vars

\* ---------------------------------------------------------------------------
\* The one-capture flag of the move history on every board size: the flag is
\* set and read on each playable point, and games are played with
\* board.makeMove in the top-right corner, where the point indices are highest
\* and a stone in the corner is taken by two moves.
\* ---------------------------------------------------------------------------

\* the number of moves of a game in the corner
MaxRecordMoves == 3

RecordSizes == 1..maxBoardSize

\* the corner point, its two neighbours and its diagonal
RecordCorner(size) ==
    { makePtOf(size, x, y) : x \in {size - 1, size} \cap (1..size), y \in {size - 1, size} \cap (1..size) }

InitRecord == \E size \in RecordSizes : InitSize(size)

\* ONE_CAPTURE | move, then move & ONE_CAPTURE and move & MOVE_TO_PT_MASK
RecordFlag ==
    /\ pc = "idle"
    /\ gtp = noDriver
    /\ board.moveCount = 0
    /\ \E i \in 1..(board.size * board.size) :
         \E pt \in { allPointsOf(board.size)[i] } :
            gtp' = [ op |-> "flag", pt |-> pt,
                     move |-> withOneCapture(pt),
                     flagged |-> hasOneCapture(withOneCapture(pt)),
                     decoded |-> moveToPt(withOneCapture(pt)),
                     plain |-> hasOneCapture(pt) ]
    /\ UNCHANGED << board, scratchBoard, boardHashes, komi, sampleCount, wins, hits, pc, gen, ret,
                    positions, slaves, workers, candidates >>

RecordMakeMove ==
    /\ pc = "idle"
    /\ gtp = noDriver
    /\ board.moveCount < MaxRecordMoves
    /\ \E move \in RecordCorner(board.size) \cup {PASS} :
         \E m \in { makeMove(board, move) } :
            /\ board' = m.b
            /\ ret' = [ noCall EXCEPT !.op = "makeMove", !.ok = okResult(m.result),
                                      !.x = getCoords(board.size, move).x,
                                      !.y = getCoords(board.size, move).y,
                                      !.result = m.result, !.captures = m.captures ]
    /\ UNCHANGED << scratchBoard, boardHashes, komi, sampleCount, wins, hits, pc, gen, positions,
                    slaves, workers, candidates, gtp >>

NextRecord == RecordFlag \/ RecordMakeMove \/ BoardClear

SpecRecord == InitRecord /\ [][NextRecord]_vars

\* ===========================================================================
\* Properties
\* ===========================================================================

\* ---------------------------------------------------------------------------
\* A reference for the rules of Go: chains and liberties by reachability over
\* board coordinates, independent of the stride arithmetic, the neighbour
\* counters and the in-chain marks.
\* ---------------------------------------------------------------------------

RefPoints(size) == { makePtOf(size, x, y) : x \in 1..size, y \in 1..size }

RefAbs(n) == IF n < 0 THEN -n ELSE n

RefAdjacent(size, p, q) ==
    RefAbs((p % (size + 1)) - (q % (size + 1))) + RefAbs((p \div (size + 1)) - (q \div (size + 1))) = 1

RefNeighbors(size, p) == { q \in RefPoints(size) : RefAdjacent(size, p, q) }

RefGrow(cells, size, S) ==
    S \cup { q \in RefPoints(size) : \E s \in S : RefAdjacent(size, s, q) /\ cells[q] = cells[s] }

RECURSIVE RefClosure(_, _, _, _)
RefClosure(cells, size, S, N) ==
    IF N = S THEN S ELSE RefClosure(cells, size, N, RefGrow(cells, size, N))

\* the maximal chain containing the stone at p
RefChain(cells, size, p) == RefClosure(cells, size, {p}, RefGrow(cells, size, {p}))

RefLiberties(cells, size, chain) ==
    { q \in RefPoints(size) : cells[q] = EMPTY /\ \E s \in chain : RefAdjacent(size, s, q) }

RefMover(b) == IF b.moveCount % 2 = 0 THEN BLACK ELSE WHITE

RefOpponent(b) == IF b.moveCount % 2 = 0 THEN WHITE ELSE BLACK

\* the cells once the mover's stone is on p, before any removal
RefPlaced(b, p) == [ b.cells EXCEPT ![p] = RefMover(b) ]

\* the stones of the opponent chains next to p that have no liberty in cells
RefDeadIn(cells, size, p, enemy) ==
    UNION { RefChain(cells, size, q) :
              q \in { n \in RefNeighbors(size, p) :
                        cells[n] = enemy /\ RefLiberties(cells, size, RefChain(cells, size, n)) = {} } }

RefDead(b, p) == RefDeadIn(RefPlaced(b, p), b.size, p, RefOpponent(b))

RefRemove(cells, dead) == [ i \in DOMAIN cells |-> IF i \in dead THEN EMPTY ELSE cells[i] ]

RefSuicideIn(cells, size, p, enemy) ==
    /\ RefDeadIn(cells, size, p, enemy) = {}
    /\ RefLiberties(cells, size, RefChain(cells, size, p)) = {}

RefSuicide(b, p) == RefSuicideIn(RefPlaced(b, p), b.size, p, RefOpponent(b))

\* the move at p takes exactly the stone of the preceding history entry, and
\* that entry carries the one-capture flag
RefKo(b, p) ==
    /\ b.moveCount >= 1
    /\ hasOneCapture(b.moves[b.moveCount])
    /\ moveToPt(b.moves[b.moveCount]) # PASS
    /\ RefDead(b, p) = { moveToPt(b.moves[b.moveCount]) }

\* ---------------------------------------------------------------------------
\* C2: when play_move(p) on an Empty point returns Played with count N, the
\* stones taken off are exactly the opponent chains next to p left without a
\* liberty, N is their number, p holds the mover's stone and no other cell
\* changes -- in every reachable position, for every p.
\* ---------------------------------------------------------------------------

C2_At(b, p, m, dead) ==
    m.result = "played" =>
        /\ m.b.cells = RefRemove(RefPlaced(b, p), dead)
        /\ m.captures = Cardinality(dead)
        /\ m.b.cells[p] = RefMover(b)

C2_CapturesMatchReference ==
    \A p \in RefPoints(board.size) :
        board.cells[p] = EMPTY => C2_At(board, p, makeMove(board, p), RefDead(board, p))

\* a move that took two or more stones off has been played
C2_Witness == ret.op = "makeMove" /\ ret.result = "played" /\ ret.captures >= 2

\* ---------------------------------------------------------------------------
\* C3: play_move(p) on an Empty point returns Suicide iff the stone captures
\* nothing and its maximal chain then has no Empty neighbour.
\* ---------------------------------------------------------------------------

C3_SuicideIffNoLiberty ==
    \A p \in RefPoints(board.size) :
        board.cells[p] = EMPTY =>
            ((makeMove(board, p).result = "suicide") <=> RefSuicide(board, p))

\* a suicide has just been refused
C3_Witness == ret.op = "makeMove" /\ ret.result = "suicide"

\* ---------------------------------------------------------------------------
\* C4: play_move(p) returns SimpleKo exactly when the move takes exactly one
\* stone, the preceding history entry is a stone placement with the
\* one-capture flag, and the stone taken is that entry's stone; so not after
\* an intervening entry, and never for a move that takes nothing.
\* ---------------------------------------------------------------------------

C4_KoIffImmediateRecapture ==
    \A p \in RefPoints(board.size) \cup {PASS} :
        (makeMove(board, p).result = "ko")
            <=> (p # PASS /\ board.cells[p] = EMPTY /\ RefKo(board, p))

\* a simple ko has just been refused
C4_Witness == ret.op = "makeMove" /\ ret.result = "ko"

\* ---------------------------------------------------------------------------
\* C1: no accepted stone placement leaves the board in the position that
\* existed after an earlier move of the same game, nor in the empty starting
\* position.
\* ---------------------------------------------------------------------------

emptyPosition(size) == [ i \in 1..(size * size) |-> EMPTY ]

C1_NoRepeatedPosition ==
    \A j \in 1..Len(positions) :
        board.moves[j] # PASS =>
            /\ positions[j] # emptyPosition(board.size)
            /\ \A i \in 1..(j - 1) : positions[i] # positions[j]

\* a move has just been refused as superko
C1_Witness == ret.op = "Play" /\ ret.result = "superko"

\* ---------------------------------------------------------------------------
\* C5: a call play(color, x, y) that returns ok=false, whether or not it is
\* color's turn, leaves the board cells, the neighbour counts, the move
\* history with move_count and the hash history as they were.
\* ---------------------------------------------------------------------------

C5_RejectedPlayChangesNothing ==
    [][ (ret'.op = "Play" /\ ~ret'.ok /\ pc' # "panic")
          => (board' = board /\ boardHashes' = boardHashes) ]_vars

\* ---------------------------------------------------------------------------
\* C7: a Pass by the player to move is accepted in every reachable state; it
\* appends one Pass to the move history and one hash, that of the unchanged
\* position, to the hash history, and leaves the cells and neighbour counts.
\* ---------------------------------------------------------------------------

C7_At(r, p) ==
    /\ p.ok
    /\ p.result = "passed"
    /\ p.r.board.moves = Append(r.board.moves, PASS)
    /\ p.r.board.moveCount = r.board.moveCount + 1
    /\ p.r.boardHashes = Append(r.boardHashes, getHash(r.board))
    /\ p.r.board.cells = r.board.cells
    /\ p.r.board.neighborCounts = r.board.neighborCounts

C7_PassAlwaysAccepted ==
    pc = "idle" => C7_At(robotNow, Play(robotNow, moverColor(board), 0, 0))

\* ---------------------------------------------------------------------------
\* C6: Black is to move iff move_count is even; play for a colour that is
\* not to move first records exactly one Pass for the opponent, which is
\* never rejected; and every accepted play(color, x, y) on the board leaves a
\* stone of color at (x, y), also when a colour moves twice in a row.
\* ---------------------------------------------------------------------------

C6_At(r, color, pt, p) ==
    /\ (getFriendlyStone(r.board) = BLACK) <=> (r.board.moveCount % 2 = 0)
    /\ ~isMyTurn(r.board, color) =>
          /\ p.autoPass
          /\ p.result # "panic"
          /\ p.message # "other side cannot pass?"
          /\ p.r.board.moveCount = r.board.moveCount + (IF p.ok THEN 2 ELSE 1)
          /\ SubSeq(p.r.board.moves, 1, r.board.moveCount + 1) = Append(r.board.moves, PASS)
    /\ isMyTurn(r.board, color) => ~p.autoPass
    /\ (p.ok /\ pt # PASS) => p.r.board.cells[pt] = colorToCell(color)

C6_TurnsAndAutoPass ==
    pc = "idle" =>
        \A color \in Colors, pt \in RefPoints(board.size) \cup {PASS} :
            C6_At(robotNow, color, pt,
                  Play(robotNow, color, getCoords(board.size, pt).x, getCoords(board.size, pt).y))

\* ---------------------------------------------------------------------------
\* C8: on the game board and on the scratch board, after every call, every
\* step of a playout and every rejected move, neighbor_counts[p] of every
\* playable point p is the number of its four orthogonal neighbours that are
\* not Empty, the Edge cells around the board counted.
\* ---------------------------------------------------------------------------

RefNotEmptyAround(b, p) ==
    (4 - Cardinality(RefNeighbors(b.size, p)))
      + Cardinality({ q \in RefNeighbors(b.size, p) : b.cells[q] # EMPTY })

C8_On(b) == \A p \in RefPoints(b.size) : b.neighborCounts[p] = RefNotEmptyAround(b, p)

C8_NeighborCounts == C8_On(board) /\ C8_On(scratchBoard)

\* a playout has just taken stones off the scratch board
C8_Witness ==
    /\ pc = "playout"
    /\ scratchBoard.moveCount > board.moveCount
    /\ hasOneCapture(scratchBoard.moves[scratchBoard.moveCount])

\* ---------------------------------------------------------------------------
\* C9: on both boards, after every operation, accepted or rejected, every
\* cell outside the playable square is Edge and every playable cell is Empty,
\* a Black stone or a White stone, without the in-chain mark.
\* ---------------------------------------------------------------------------

C9_On(b) ==
    \A i \in DOMAIN b.cells :
        IF i \in RefPoints(b.size) THEN b.cells[i] \in {EMPTY, BLACK, WHITE}
        ELSE b.cells[i] = EDGE

C9_CellsWellFormed == C9_On(board) /\ C9_On(scratchBoard)

\* a move has just been refused as a simple ko, after the stone was placed
\* and taken back on the scratch board
C9_Witness == ret.op = "Play" /\ ret.result = "ko"

\* ---------------------------------------------------------------------------
\* C10: whenever generate_move(color) returns Played at (x, y), the point was
\* Empty before the move, it was not an eye of the generating player, and
\* the move is neither a suicide, nor a simple ko, nor a repetition of an
\* earlier position.
\* ---------------------------------------------------------------------------

RefDiagonals(size, p) ==
    { q \in RefPoints(size) :
        /\ RefAbs((p % (size + 1)) - (q % (size + 1))) = 1
        /\ RefAbs((p \div (size + 1)) - (q \div (size + 1))) = 1 }

RefEye(b, p) ==
    /\ \A q \in RefNeighbors(b.size, p) : b.cells[q] = RefMover(b)
    /\ Cardinality({ q \in RefDiagonals(b.size, p) : b.cells[q] = RefOpponent(b) })
         + (IF Cardinality(RefDiagonals(b.size, p)) < 4 THEN 1 ELSE 0) < 2

\* the position the move at p leaves, in allPoints order
RefPositionAfter(b, p) ==
    positionOf([ b EXCEPT !.cells = RefRemove(RefPlaced(b, p), RefDead(b, p)) ])

C10_Before(b, p) ==
    /\ b.cells[p] = EMPTY
    /\ ~RefEye(b, p)
    /\ ~RefSuicide(b, p)
    /\ ~RefKo(b, p)
    /\ \A i \in 1..Len(positions) : positions[i] # RefPositionAfter(b, p)

C10_GeneratedMoveLegal ==
    [][ (pc = "gameOver" /\ ret'.op = "GenMove" /\ ret'.result = "played")
          => C10_Before(board, makePtOf(board.size, ret'.x, ret'.y)) ]_vars

\* a move was generated and played
C10_Witness == pc = "idle" /\ ret.op = "GenMove" /\ ret.result = "played"

\* ---------------------------------------------------------------------------
\* C11: generate_move commits a point of the candidate set C (hit at least
\* once, not an eye, strictly legal) whose wins/hits is not below that of any
\* other point of C, whatever the random permutation; it commits Pass and
\* returns Passed iff C is empty.
\* ---------------------------------------------------------------------------

RefCandidates(b, hitsNow) == { p \in RefPoints(b.size) : hitsNow[p] > 0 /\ C10_Before(b, p) }

C11_Chosen(cands, winsNow, hitsNow, result, pt) ==
    IF result = "played"
    THEN /\ pt \in cands
         /\ \A q \in cands : winsNow[pt] * hitsNow[q] >= winsNow[q] * hitsNow[pt]
    ELSE result = "passed" /\ cands = {}

C12_LegalPointIsPlayed ==
    [][ (pc = "gameOver" /\ pc' # "playout" /\ ret'.op = "GenMove"
           /\ \E p \in RefPoints(board.size) : C10_Before(board, p))
          => (ret'.result = "played" /\ ret'.x \in 1..board.size /\ ret'.y \in 1..board.size) ]_vars

\* ---------------------------------------------------------------------------
\* C13: in every reachable state and for every colour, generate_move returns
\* Played or Passed and never aborts: the opponent's pass is never rejected
\* and the selected move is never rejected when it is committed.
\* ---------------------------------------------------------------------------

C13_GenMoveNeverAborts ==
    ret.op = "GenMove" =>
        /\ pc # "panic"
        /\ ret.result \in {"running", "played", "passed"}

\* ---------------------------------------------------------------------------
\* C14: after find_wins(n), for every playable point p, hits[p] is the number
\* of the n playouts in which the player to move on the game board placed a
\* stone on p at least once during the rollout, and wins[p] is the sum of the
\* win amounts of those playouts: the statistics start from zero at every
\* call, each finished playout adds one hit and its win amount to exactly the
\* points its generating player played, the other player's moves add nothing,
\* and -hits[p] <= wins[p] <= hits[p] <= n.
\* ---------------------------------------------------------------------------

\* the points the player to move on b placed a stone on during the rollout sb
RefGeneratorPoints(b, sb) ==
    { p \in RefPoints(b.size) :
        \E i \in (b.moveCount + 1)..sb.moveCount :
           /\ (i - b.moveCount) % 2 = 1
           /\ sb.moves[i] # PASS
           /\ moveToPt(sb.moves[i]) = p }

RefCredited(b, sb, winsNow, hitsNow, winsNext, hitsNext) ==
    \E amount \in {-1, 0, 1} :
       \A p \in RefPoints(b.size) :
          IF p \in RefGeneratorPoints(b, sb)
          THEN hitsNext[p] = hitsNow[p] + 1 /\ winsNext[p] = winsNow[p] + amount
          ELSE hitsNext[p] = hitsNow[p] /\ winsNext[p] = winsNow[p]

RefStatsInRange(size, winsNow, hitsNow, n) ==
    \A p \in RefPoints(size) :
       /\ hitsNow[p] >= 0 /\ hitsNow[p] <= n
       /\ winsNow[p] <= hitsNow[p] /\ -hitsNow[p] <= winsNow[p]

RefWinAmount(generator, score, komi2) ==
    IF 2 * score = komi2 THEN 0
    ELSE IF (2 * score > komi2) <=> (generator = BLACK) THEN 1
    ELSE -1

C15_WinAmount ==
    [][ pc = "gameOver"
          => \A p \in DOMAIN hits :
                hits'[p] = hits[p] + 1
                  => wins'[p] - wins[p]
                       = RefWinAmount(RefMover(board), getEasyScore(scratchBoard), komi) ]_vars

\* White generates and has won the first playout, which appended an odd
\* number of moves
C15_Witness ==
    /\ pc = "gameOver"
    /\ gen.sample = 0
    /\ RefMover(board) = WHITE
    /\ (scratchBoard.moveCount - board.moveCount) % 2 = 1
    /\ 2 * getEasyScore(scratchBoard) < komi
    /\ RefGeneratorPoints(board, scratchBoard) # {}

\* ---------------------------------------------------------------------------
\* C16: play_random_game terminates from every reachable position for every
\* sequence of random values; it returns exactly when two consecutive Passes
\* have just been recorded or move_count has reached 3*size^2; two
\* consecutive Passes never occur earlier inside the rollout; and move_count
\* never exceeds max(move_count at entry, 3*size^2).
\* ---------------------------------------------------------------------------

\* the rollout sb of the game b ends with two Passes of its own
RefTwoPasses(b, sb) ==
    /\ sb.moveCount >= b.moveCount + 2
    /\ sb.moves[sb.moveCount] = PASS
    /\ sb.moves[sb.moveCount - 1] = PASS

\* two consecutive Passes of the rollout before its last move
RefEarlierPasses(b, sb) ==
    \E i \in (b.moveCount + 1)..(sb.moveCount - 2) :
       sb.moves[i] = PASS /\ sb.moves[i + 1] = PASS

RefMoveLimit(b) == 3 * b.size * b.size

RefHighest(a, b) == IF a >= b THEN a ELSE b

\* the loops of the rollout left to run: moves up to the limit, then
\* candidates of the turn
RefLoopsLeft(sb, g) ==
    << RefMoveLimit(sb) - sb.moveCount, g.candCount - g.i >>

RefFewer(after, before) ==
    \/ after[1] < before[1]
    \/ after[1] = before[1] /\ after[2] < before[2]

C16_Step ==
    /\ pc = "playout"
         => /\ pc' \in {"playout", "gameOver"}
            /\ pc' = "playout"
                 => /\ RefFewer(RefLoopsLeft(scratchBoard', gen'), RefLoopsLeft(scratchBoard, gen))
                    /\ RefLoopsLeft(scratchBoard, gen)[1] > 0
                    /\ RefLoopsLeft(scratchBoard, gen)[2] >= 0
                    /\ ~RefTwoPasses(board, scratchBoard)
            /\ pc' = "gameOver"
                 => \/ RefTwoPasses(board, scratchBoard')
                    \/ scratchBoard'.moveCount >= RefMoveLimit(board)
            /\ (pc' = "playout" /\ scratchBoard.moveCount < RefMoveLimit(board))
                 => ~RefTwoPasses(board, scratchBoard')
    /\ pc' \in {"playout", "gameOver"}
         => /\ ~RefEarlierPasses(board', scratchBoard')
            /\ scratchBoard'.moveCount
                 <= RefHighest(board'.moveCount, RefMoveLimit(board'))

C16_PlayoutTerminates ==
    /\ [][C16_Step]_vars
    /\ (pc = "playout") ~> (pc = "gameOver")

\* a rollout that began after a Pass of the game, placed a stone and ended
\* below the limit by two Passes of its own
C16_Witness ==
    /\ pc = "gameOver"
    /\ scratchBoard.moveCount < RefMoveLimit(board)
    /\ RefTwoPasses(board, scratchBoard)
    /\ board.moveCount > 0
    /\ board.moves[board.moveCount] = PASS
    /\ \E i \in (board.moveCount + 1)..(scratchBoard.moveCount - 2) :
          scratchBoard.moves[i] # PASS

\* ---------------------------------------------------------------------------
\* C17: for every position and every point p, would_fill_eye(p) is true iff
\* each orthogonal neighbour of p is a stone of the player to move or Edge
\* and the number of opponent stones among the diagonal neighbours, plus one
\* if any diagonal neighbour is Edge, is below 2; would_fill_eye(Pass) is
\* false.
\* ---------------------------------------------------------------------------

C17_WouldFillEye ==
    /\ ~wouldFillEye(board, PASS)
    /\ \A p \in RefPoints(board.size) : wouldFillEye(board, p) <=> RefEye(board, p)

RefEnemyDiagonals(b, p) ==
    Cardinality({ q \in RefDiagonals(b.size, p) : b.cells[q] = RefOpponent(b) })

RefSurrounded(b, p) ==
    /\ b.cells[p] = EMPTY
    /\ \A q \in RefNeighbors(b.size, p) : b.cells[q] = RefMover(b)

\* an interior point, surrounded by the player to move, with the given number
\* of enemy stones on its diagonals
C17_Interior(enemies, eye) ==
    \E p \in RefPoints(board.size) :
       /\ Cardinality(RefDiagonals(board.size, p)) = 4
       /\ RefSurrounded(board, p)
       /\ RefEnemyDiagonals(board, p) = enemies
       /\ wouldFillEye(board, p) = eye

\* an interior eye that tolerates its one diagonal enemy
C17_Witness == C17_Interior(1, TRUE)

\* ---------------------------------------------------------------------------
\* C18: for every position, easy_score = (Black stones + Empty points whose
\* orthogonal neighbours include a Black stone and no White stone) - (White
\* stones + Empty points whose orthogonal neighbours include a White stone
\* and no Black stone); Empty points touching both colours or no stone count
\* for nobody, and swapping the colours of all stones negates the score.
\* ---------------------------------------------------------------------------

\* the Empty points that touch a stone of colour c and none of the other
RefTouching(b, c, other) ==
    { p \in RefPoints(b.size) :
        /\ b.cells[p] = EMPTY
        /\ \E q \in RefNeighbors(b.size, p) : b.cells[q] = c
        /\ \A q \in RefNeighbors(b.size, p) : b.cells[q] # other }

RefArea(b, c, other) ==
    Cardinality({ p \in RefPoints(b.size) : b.cells[p] = c })
      + Cardinality(RefTouching(b, c, other))

RefSwapped(b) ==
    [ b EXCEPT !.cells = [ p \in DOMAIN b.cells |->
                             IF b.cells[p] = BLACK THEN WHITE
                             ELSE IF b.cells[p] = WHITE THEN BLACK
                             ELSE b.cells[p] ] ]

C18_EasyScore ==
    /\ getEasyScore(board) = RefArea(board, BLACK, WHITE) - RefArea(board, WHITE, BLACK)
    /\ getEasyScore(RefSwapped(board)) = -getEasyScore(board)

\* Empty points of all four kinds at once: next to Black only, next to White
\* only, next to both and next to no stone
C18_Witness ==
    /\ RefTouching(board, BLACK, WHITE) # {}
    /\ RefTouching(board, WHITE, BLACK) # {}
    /\ \E p \in RefPoints(board.size) :
          /\ board.cells[p] = EMPTY
          /\ \E q \in RefNeighbors(board.size, p) : board.cells[q] = BLACK
          /\ \E q \in RefNeighbors(board.size, p) : board.cells[q] = WHITE
    /\ \E p \in RefPoints(board.size) :
          /\ board.cells[p] = EMPTY
          /\ \A q \in RefNeighbors(board.size, p) : board.cells[q] = EMPTY
    /\ getEasyScore(board) > 0

\* ---------------------------------------------------------------------------
\* C19: play_random_game run from the empty size-2 board once for every
\* sequence of choices of the odometer source gives exactly 544 games: 144
\* end in each of the two positions with two Black stones on a diagonal, 64
\* in each of the four positions with three White stones, and no playout
\* from the empty board ends in another position. From the empty size-1
\* board there is exactly one game, which leaves the board empty.
\* ---------------------------------------------------------------------------

RefPositions(size) == [ 1..(size * size) -> {EMPTY, WHITE, BLACK} ]

RefStones(position, c) == { i \in DOMAIN position : position[i] = c }

\* allPoints of the size-2 board is a1, b1, a2, b2
RefTwoBlackOnDiagonal ==
    { position \in RefPositions(2) :
        /\ RefStones(position, BLACK) \in { {1, 4}, {2, 3} }
        /\ RefStones(position, WHITE) = {} }

RefThreeWhite ==
    { position \in RefPositions(2) :
        /\ Cardinality(RefStones(position, WHITE)) = 3
        /\ RefStones(position, BLACK) = {} }

RefGamesEnding(games, position) ==
    Cardinality({ i \in 1..Len(games) : positionOf(games[i]) = position })

RefFinalPositions(size) ==
    IF size = 1 THEN { [ i \in 1..1 |-> EMPTY ] }
    ELSE RefTwoBlackOnDiagonal \cup RefThreeWhite

RefGamesExpected(size, games) ==
    IF size = 1
    THEN /\ Len(games) = 1
         /\ positionOf(games[1]) \in RefFinalPositions(1)
    ELSE /\ Len(games) = 544
         /\ Cardinality(RefTwoBlackOnDiagonal) = 2
         /\ \A position \in RefTwoBlackOnDiagonal : RefGamesEnding(games, position) = 144
         /\ Cardinality(RefThreeWhite) = 4
         /\ \A position \in RefThreeWhite : RefGamesEnding(games, position) = 64

\* the games are enumerated for the board of each newly made robot, and every
\* playout of the robot from its empty board ends in one of the positions
C19_AllRandomGames ==
    /\ ret.op = "new" => RefGamesExpected(board.size, generateAllGames(board.size))
    /\ (pc = "gameOver" /\ board.moveCount = 0)
         => positionOf(scratchBoard) \in RefFinalPositions(board.size)

\* a playout from the empty size-2 board that ended with three White stones
C19_Witness ==
    /\ pc = "gameOver"
    /\ board.moveCount = 0
    /\ board.size = 2
    /\ positionOf(scratchBoard) \in RefThreeWhite

\* ---------------------------------------------------------------------------
\* C20: in the engine, immediately after each copy_from the scratch board's
\* playable cells, neighbor_counts at playable points, move_count and whole
\* move history equal the game board's, including the entries below
\* common_move_count that are not copied again, whatever playouts and
\* legality checks ran on the scratch board before.
\* ---------------------------------------------------------------------------

RefSameGame(sb, b) ==
    /\ sb.size = b.size
    /\ \A p \in RefPoints(b.size) :
          /\ sb.cells[p] = b.cells[p]
          /\ sb.neighborCounts[p] = b.neighborCounts[p]
    /\ sb.moveCount = b.moveCount
    /\ \A i \in 1..b.moveCount : sb.moves[i] = b.moves[i]

\* the copy made from any reachable state, and the copies findWins makes
C20_ScratchEqualsBoard ==
    [][ /\ RefSameGame(copyFrom(scratchBoard', board'), board')
        /\ (pc' = "playout" /\ gen'.sample # gen.sample) => RefSameGame(scratchBoard', board')
        /\ (pc = "idle" /\ pc' = "playout") => RefSameGame(scratchBoard', board') ]_vars

\* a playout has left other stones and a longer history on the scratch
\* board of a game with stones, whose moves are below commonMoveCount: the
\* next legality check starts from a copy
C20_Witness ==
    /\ pc = "gameOver"
    /\ board.moveCount > 1
    /\ \E p \in RefPoints(board.size) : board.cells[p] # EMPTY
    /\ scratchBoard.commonMoveCount = board.moveCount
    /\ scratchBoard.moveCount > board.moveCount
    /\ \E p \in RefPoints(board.size) :
          /\ scratchBoard.cells[p] # board.cells[p]
          /\ scratchBoard.neighborCounts[p] # board.neighborCounts[p]

\* ---------------------------------------------------------------------------
\* C21: the game board and the scratch board share no state: after
\* copy_from, moves made on either board change no cell, neighbor_count or
\* history entry of the other; find_wins and check_legal leave the game
\* board's cells, neighbor_counts, move history, move_count and the hash
\* history as they were.
\* ---------------------------------------------------------------------------

\* the slices of robot r after SetBoardSize and the scratch board's copyFrom
RefCopied(r, e) ==
    heapCopyFrom(e.h, e.scratchBoard, e.board, r.board.size,
                 r.scratchBoard.commonMoveCount, r.board.moveCount)

RefApart(r, e, c) ==
    /\ heapRead(c.h, e.board) = heapRead(e.h, e.board)
    /\ c.h[e.boardHashes] = r.boardHashes
    /\ \A pt \in RefPoints(r.board.size) :
          /\ heapRead(heapMove(c.h, c.slices, pt), e.board) = heapRead(c.h, e.board)
          /\ heapMove(c.h, c.slices, pt)[e.boardHashes] = r.boardHashes
          /\ heapRead(heapMove(c.h, e.board, pt), c.slices) = heapRead(c.h, c.slices)

RefNoSharedState(r) ==
    \A e \in { heapSetBoardSize(r.board, r.scratchBoard, r.boardHashes) } :
       RefApart(r, e, RefCopied(r, e))

RefCheckLeavesBoard(r) ==
    \A move \in RefPoints(r.board.size) \cup {PASS} :
       \A c \in { checkLegalMove(r, move) } :
          /\ c.r.board = r.board
          /\ c.r.boardHashes = r.boardHashes

\* the slices are apart in every reachable state, whatever ran on the
\* scratch board before, and a legality check of any move returns the
\* robot with its game board and hash history as they were
C21_BoardsShareNoState ==
    /\ RefNoSharedState(robotNow)
    /\ pc # "panic" => RefCheckLeavesBoard(robotNow)

\* a playout has run on the scratch board of a game with stones
C21_Witness ==
    /\ pc = "gameOver"
    /\ scratchBoard.moveCount > board.moveCount + 1
    /\ \E p \in RefPoints(board.size) : board.cells[p] # EMPTY
    /\ \E p \in RefPoints(board.size) : scratchBoard.cells[p] # board.cells[p]
    /\ Len(boardHashes) = board.moveCount

\* ---------------------------------------------------------------------------
\* C22: clear_board, and a successful set_board_size, issued in any reachable
\* state yields the board, scratch board, move history (move_count = 0,
\* common_move_count = 0) and empty hash history of a freshly constructed
\* engine of that size: every playable cell Empty, neighbor_counts 2, 1 and 0
\* at corners, sides and interior points (4 on size 1); so a second clear
\* changes nothing and no ko or superko constraint survives.
\* ---------------------------------------------------------------------------

\* NewConfiguredRobot of the size
RefNewRobot(size) ==
    [ board |-> clearedBoard(size), scratchBoard |-> clearedBoard(size), boardHashes |-> << >> ]

\* 2 at a corner, 1 on a side, 0 inside, 4 on the board of one point
RefOffBoard(size, p) == 4 - Cardinality(RefNeighbors(size, p))

RefEmptyBoard(b) ==
    /\ b.moveCount = 0
    /\ b.commonMoveCount = 0
    /\ b.moves = << >>
    /\ \A p \in RefPoints(b.size) :
          /\ b.cells[p] = EMPTY
          /\ b.neighborCounts[p] = RefOffBoard(b.size, p)
          /\ b.neighborCounts[p] \in (IF b.size = 1 THEN {4} ELSE {0, 1, 2})

RefCleared(r, fresh) ==
    /\ r = fresh
    /\ RefEmptyBoard(r.board)
    /\ RefEmptyBoard(r.scratchBoard)
    /\ r.boardHashes = << >>

C22_ClearGivesNewEngine ==
    [][ (ret'.op \in {"ClearBoard", "SetBoardSize"} /\ ret'.ok)
          => /\ RefCleared([ board |-> board', scratchBoard |-> scratchBoard',
                             boardHashes |-> boardHashes' ], RefNewRobot(board'.size))
             /\ wins' = zeroStats(board'.size)
             /\ hits' = zeroStats(board'.size) ]_vars

\* the 3x3 board was cleared: corners, sides and the centre
C22_Witness ==
    /\ ret.op = "ClearBoard"
    /\ board.size = 3
    /\ { board.neighborCounts[p] : p \in RefPoints(board.size) } = {0, 1, 2}
    /\ board.moveCount = 0

\* ---------------------------------------------------------------------------
\* C23: set_board_size(size) with size > 25 returns false and leaves the
\* whole engine state (size, both boards, move history, hash history,
\* statistics) unchanged; an accepted size (<= 25) returns true and leaves
\* the board cleared at the new size.
\* ---------------------------------------------------------------------------

C23_SetBoardSize ==
    [][ ret'.op = "SetBoardSize"
          => IF ret'.x > 25
             THEN /\ ~ret'.ok
                  /\ UNCHANGED << board, scratchBoard, boardHashes, wins, hits,
                                  komi, sampleCount, positions >>
             ELSE /\ ret'.ok
                  /\ board'.size = ret'.x
                  /\ scratchBoard'.size = ret'.x
                  /\ RefEmptyBoard(board')
                  /\ RefEmptyBoard(scratchBoard')
                  /\ boardHashes' = << >> ]_vars

\* a size above 25 was refused in the middle of a game
C23_Witness ==
    /\ ret.op = "SetBoardSize"
    /\ ret.x > 25
    /\ ~ret.ok
    /\ board.moveCount > 1
    /\ \E p \in RefPoints(board.size) : board.cells[p] # EMPTY

\* ---------------------------------------------------------------------------
\* C24: after construction and after any sequence of set_board_size calls
\* with arbitrary integer arguments, 0 and negative values included, the
\* board's size lies in 1..25.
\* ---------------------------------------------------------------------------

C24_SizeInRange == board.size \in 1..25

\* ---------------------------------------------------------------------------
\* The multirobot
\* ---------------------------------------------------------------------------

\* the goroutines of findWinsMulti that have not ended
RefRunning == { i \in DOMAIN workers : workers[i].pc # "done" }

RECURSIVE RefTotal(_, _, _, _)
RefTotal(sl, field, j, k) ==
    IF k = 0 THEN 0 ELSE sl[k][field][j] + RefTotal(sl, field, j, k - 1)

\* a step of one goroutine: the main robot is as before, and a slave that
\* changed is the slave of the one goroutine that made the step
RefOwnSlaveOnly ==
    /\ UNCHANGED << board, scratchBoard, boardHashes, komi, wins, hits >>
    /\ \A k \in DOMAIN slaves :
         slaves'[k] # slaves[k] =>
           \E i \in RefRunning :
              /\ workers[i].r = k
              /\ workers'[i] # workers[i]
              /\ \A j \in DOMAIN workers \ {i} : workers'[j] = workers[j]

\* the statistics of the main robot are the sums over the slaves
RefCollected ==
    /\ RefRunning = {}
    /\ \A j \in DOMAIN wins' :
         /\ wins'[j] = RefTotal(slaves, "wins", j, Len(slaves))
         /\ hits'[j] = RefTotal(slaves, "hits", j, Len(slaves))

\* C25: in the find-wins round of the multirobot no two goroutines that run
\* work on the same slave, a step of a goroutine reads and writes its own
\* slave only and leaves the main robot alone, and the main robot collects
\* the statistics only when every goroutine has reported: its wins and hits
\* are then the sums of the wins and hits of the slaves
C25_WorkersShareNothing ==
    [][ pc = "waiting" =>
          /\ \A i, j \in RefRunning : i # j => workers[i].r # workers[j].r
          /\ IF pc' = "waiting" THEN RefOwnSlaveOnly ELSE RefCollected ]_vars

\* two slaves reported one sample each, and the sums are theirs added up
C25_Witness ==
    /\ ret.op = "GenMove"
    /\ pc = "idle"
    /\ Len(slaves) = 2
    /\ hits[PASS] = 2
    /\ wins[PASS] \in {-2, 2}
    /\ \A k \in DOMAIN slaves : slaves[k].hits[PASS] = 1

\* no point passes the candidate filter of genMovesMulti
RefNoSurvivor ==
    \A pt \in RefPoints(board.size) :
       ~(/\ hits'[pt] > 0
         /\ ~wouldFillEye(board, pt)
         /\ checkLegalMove(robotNow, pt).result = "played")

\* b1 is b0 with the one move pt recorded after it
RefOneMore(b0, b1, pt) ==
    /\ b1.moveCount = b0.moveCount + 1
    /\ moveToPt(b1.moves[b1.moveCount]) = pt

\* C26: when no candidate survives the filter, generate_move of the
\* multirobot records exactly one Pass on the main robot and on every slave
\* and returns Passed; when it returns Played at (x, y), (x, y) is on the
\* board, the main robot's cell there holds the generating colour, and every
\* slave recorded the same move
C26_MultiGenMove ==
    [][ (pc = "waiting" /\ pc' = "idle") =>
          /\ RefNoSurvivor =>
               /\ ret'.message = "Passed"
               /\ RefOneMore(board, board', PASS)
               /\ \A k \in DOMAIN slaves : RefOneMore(slaves[k].board, slaves'[k].board, PASS)
          /\ ret'.message = "Played" =>
               /\ ret'.x \in 1..board.size
               /\ ret'.y \in 1..board.size
               /\ board'.cells[makePtOf(board.size, ret'.x, ret'.y)] = colorToCell(ret'.color)
               /\ \A k \in DOMAIN slaves :
                    RefOneMore(slaves[k].board, slaves'[k].board,
                               makePtOf(board.size, ret'.x, ret'.y)) ]_vars

\* C27: play(c, x, y) of the multirobot is play(c, x, y) of the single robot:
\* both return the same (ok, message) and leave the same board and history on
\* the main robot, so invalid arguments are rejected without effect and a
\* move by the colour that is not to move follows an inserted Pass
C27_PlayAsSingleRobot ==
    [][ ret'.op = "Play" =>
          \A p \in { Play(robotNow, ret'.color, ret'.x, ret'.y) } :
             /\ ret'.ok = p.ok
             /\ ret'.message = p.message
             /\ board' = p.r.board
             /\ boardHashes' = p.r.boardHashes ]_vars

\* ---------------------------------------------------------------------------
\* The GTP driver
\* ---------------------------------------------------------------------------

\* C28: for every size in 1..25 and every (x, y) on the board, parsing the
\* text that formatting (x, y) produced gives (x, y) back; formatting never
\* produces the column letter "I", and parsing rejects every vertex whose
\* column letter is "I"
C28_VertexRoundTrip ==
    /\ (gtp.op = "roundTrip" /\ gtp.x \in 1..25 /\ gtp.y \in 1..25) =>
         gtp.vertex = [ x |-> gtp.x, y |-> gtp.y, ok |-> TRUE ]
    /\ (gtp.op = "vertexToString" /\ gtp.ok) => gtp.text[1] # charI
    /\ (gtp.op = "stringToVertex" /\ toUpper(gtp.text)[1] = charI) => ~gtp.vertex.ok

\* the tokens of a line that are not white space
RefInk(line) == { k \in 1..Len(line) : line[k] # " " }

RefFirstInk(line) == CHOOSE k \in RefInk(line) : \A j \in RefInk(line) : k <= j

\* a command line: not blank, and its first token that is not white space is
\* not the comment sign
RefIsCommand(line) == RefInk(line) # {} /\ line[RefFirstInk(line)] # "#"

\* the command of a command line: its tokens up to the first white space
RefCommand(line) ==
    SubSeq(line, RefFirstInk(line),
           CHOOSE k \in RefInk(line) :
              /\ k >= RefFirstInk(line)
              /\ \A j \in RefFirstInk(line)..k : j \in RefInk(line)
              /\ (k + 1) \notin RefInk(line))

\* the command lines among the first n lines, in input order
RefCommandLines(in, n) == SelectSeq([ k \in 1..n |-> in[k] ], RefIsCommand)

RefIsQuit(line) == RefIsCommand(line) /\ RefCommand(line) = << "quit" >>

\* the lines up to the first quit, all lines when there is none
RefUpToQuit(in) ==
    IF \E k \in 1..Len(in) : RefIsQuit(in[k])
    THEN CHOOSE k \in 1..Len(in) : RefIsQuit(in[k]) /\ \A j \in 1..(k - 1) : ~RefIsQuit(in[j])
    ELSE Len(in)

\* one response for every command line read, in input order: a failure for
\* an unknown command, a success otherwise
RefAnswered(in, n, out) ==
    /\ Len(out) = Len(RefCommandLines(in, n))
    /\ \A k \in 1..Len(out) :
         out[k].success = (RefCommand(RefCommandLines(in, n)[k]) \in { << "quit" >>, << "name" >> })

\* C29: the command loop writes exactly one response per command line, in
\* input order; blank lines and lines starting with '#' get no response, an
\* unknown command gets a failure response and the loop goes on with the next
\* line, and the first quit gets a success response, after which Run returns
\* nil without reading or answering any later line
C29_OneResponsePerCommand ==
    /\ [](gtp.op = "Run" =>
            /\ RefAnswered(gtp.in, gtp.pos, gtp.out)
            /\ gtp.pos <= RefUpToQuit(gtp.in)
            /\ gtp.result = "nil" <=> (gtp.pos > 0 /\ RefIsQuit(gtp.in[gtp.pos]))
            /\ gtp.result = "EOF" => gtp.pos = Len(gtp.in))
    /\ <>(gtp.op = "Run" /\ gtp.result # "" /\ gtp.pos = RefUpToQuit(gtp.in))

\* an unknown command was refused, quit was answered, and the line after quit
\* was not read
C29_Witness ==
    /\ gtp.op = "Run"
    /\ gtp.result = "nil"
    /\ Len(gtp.in) = 3
    /\ gtp.pos = 2
    /\ gtp.in[1] = << "asdf" >>
    /\ gtp.out = << [ message |-> "unknown command", success |-> FALSE ],
                    [ message |-> "", success |-> TRUE ] >>

\* ---------------------------------------------------------------------------
\* The board
\* ---------------------------------------------------------------------------

\* C30: at the board level every play_move(p) that returns Occupied, Suicide
\* or SimpleKo leaves the cells, the neighbour counts at the playable points,
\* the move history and move_count as they were before the call; the stone
\* tried, the increments of its four neighbours, and for a ko the stone taken
\* and the decrements of its four neighbours are undone
C30_RefusedMoveLeavesBoard ==
    [][ (ret'.op = "makeMove" /\ ret'.result \in {"occupied", "suicide", "ko"}) =>
          /\ board'.cells = board.cells
          /\ \A p \in RefPoints(board.size) : board'.neighborCounts[p] = board.neighborCounts[p]
          /\ board'.moves = board.moves
          /\ board'.moveCount = board.moveCount ]_vars

\* a move has just been refused as a simple ko: the stone it took is back
C30_Witness ==
    /\ ret.op = "makeMove"
    /\ ret.result = "ko"
    /\ hasOneCapture(board.moves[board.moveCount])
    /\ board.cells[moveToPt(board.moves[board.moveCount])] # EMPTY

\* ---------------------------------------------------------------------------
\* The hash history
\* ---------------------------------------------------------------------------

\* the hash of a position given as the colours of the playable points
RECURSIVE RefHashFold(_, _, _)
RefHashFold(position, k, i) ==
    IF i > Len(position) THEN k
    ELSE RefHashFold(position, hashStep(k, position[i]), i + 1)

RefHash(position) == RefHashFold(position, hashSeed, 1)

\* C31: in every reachable state of the game, for every i in 1..move_count
\* the i-th entry of the hash history is the hash of the position that
\* existed immediately after the i-th recorded move, Passes included; when
\* move_count >= 1 the last entry is the hash of the current board
C31_HashHistory ==
    /\ Len(boardHashes) = board.moveCount
    /\ Len(positions) = board.moveCount
    /\ \A i \in 1..board.moveCount : boardHashes[i] = RefHash(positions[i])
    /\ board.moveCount >= 1 => boardHashes[board.moveCount] = getHash(board)

\* a capture has just been played in a game in which a Pass was recorded
\* after a stone: the history holds hashes of different positions, one of
\* them twice
C31_Witness ==
    /\ ret.op = "Play"
    /\ ret.captures >= 1
    /\ \E i \in 2..board.moveCount :
          /\ board.moves[i] = PASS
          /\ boardHashes[i] = boardHashes[i - 1]
          /\ boardHashes[i] # boardHashes[board.moveCount]

\* ---------------------------------------------------------------------------
\* The candidate list of play_random_game
\* ---------------------------------------------------------------------------

\* a turn of the rollout begins: the head of the "played" loop
RefTurnStart == pc = "playout" /\ gen.i = gen.playedCount

\* the candidates still to be tried this turn
RefAvailable(g) == { g.candidates[k] : k \in (g.playedCount + 1)..g.candCount }

\* C32: at the start of every turn inside play_random_game,
\* candidates[0..playedCount) are occupied points and
\* candidates[playedCount..candCount) are Empty points, so every Empty point
\* collected at the last collection is still available to be tried
C32_CandidateInvariant ==
    RefTurnStart =>
        /\ \A k \in 1..gen.playedCount : scratchBoard.cells[gen.candidates[k]] # EMPTY
        /\ \A p \in RefAvailable(gen) : scratchBoard.cells[p] = EMPTY
        /\ \A p \in RefPoints(scratchBoard.size) :
              scratchBoard.cells[p] = EMPTY => p \in RefAvailable(gen)

\* ---------------------------------------------------------------------------
\* C33: inside play_random_game a Pass is recorded for the player to move
\* only when no Empty point of the board is both not eye-filling for that
\* player and accepted by play_move; whenever such a point exists the turn
\* records a stone placement
\* ---------------------------------------------------------------------------

\* p can be played by the player to move on b and is not one of its eyes
RefSuitable(b, p) ==
    /\ b.cells[p] = EMPTY
    /\ ~wouldFillEye(b, p)
    /\ makeMove(b, p).result = "played"

\* the candidates of the turn are used up: the rollout is about to pass
RefPassDue ==
    /\ pc = "playout"
    /\ scratchBoard.moveCount < maxPlayoutMoves(scratchBoard.size)
    /\ gen.i >= gen.candCount

C33_PassOnlyWhenNothingPlayable ==
    RefPassDue => \A p \in RefPoints(scratchBoard.size) : ~RefSuitable(scratchBoard, p)

\* ---------------------------------------------------------------------------
\* C35: whenever play_random_game ends with two consecutive Passes and
\* find_wins then calls easy_score, no Empty point of the scratch board has
\* both a Black and a White stone among its orthogonal neighbours
\* ---------------------------------------------------------------------------

RefNextTo(b, p, c) == \E q \in RefNeighbors(b.size, p) : b.cells[q] = c

C35_EasyScorePrecondition ==
    (pc = "gameOver" /\ RefTwoPasses(board, scratchBoard))
       => \A p \in RefPoints(scratchBoard.size) :
             scratchBoard.cells[p] = EMPTY
                => ~(RefNextTo(scratchBoard, p, BLACK) /\ RefNextTo(scratchBoard, p, WHITE))

\* ---------------------------------------------------------------------------
\* The sentinel-padded grid
\* ---------------------------------------------------------------------------

\* the steps in x and in y of the eight directions: right, left, up, down,
\* nw, ne, sw, se
RefStepX == << 1, -1, 0, 0, -1, 1, -1, 1 >>

RefStepY == << 0, 0, 1, -1, 1, 1, -1, -1 >>

RefOnBoard(size, x, y) == x \in 1..size /\ y \in 1..size

\* the neighbour of the point read lies off the board
RefNeighborOff(size, read) ==
    ~RefOnBoard(size, (read.pt % (size + 1)) + RefStepX[read.dir],
                (read.pt \div (size + 1)) + RefStepY[read.dir])

\* C34: for every size in 1..25 and every playable point p, each of the four
\* orthogonal and four diagonal offsets yields an index inside the cell array
\* (0 <= p+offset < length), and that index holds Edge exactly when the
\* geometric neighbour is off the board; the diagonal of the top-right point
\* lands on the one extra trailing cell
C34_NeighborsInsideArray ==
    gtp.op = "neighbor" =>
        /\ gtp.index >= 0
        /\ gtp.index < gtp.len
        /\ (gtp.cell = EDGE) <=> RefNeighborOff(board.size, gtp)
        /\ (gtp.pt = makePtOf(board.size, board.size, board.size) /\ gtp.dir = 6)
             => gtp.index = gtp.len - 1

\* the diagonal of the top-right point of the largest board has been read: it
\* is the last cell of the array and holds Edge
C34_Witness ==
    /\ gtp.op = "neighbor"
    /\ board.size = maxBoardSize
    /\ gtp.pt = makePtOf(board.size, board.size, board.size)
    /\ gtp.dir = 6
    /\ gtp.index = gtp.len - 1
    /\ gtp.cell = EDGE

\* ---------------------------------------------------------------------------
\* Chains and liberties
\* ---------------------------------------------------------------------------

\* the stones next to an Empty point
RefBreathing(cells, size) ==
    { p \in RefPoints(size) :
        cells[p] \in {BLACK, WHITE} /\ \E q \in RefNeighbors(size, p) : cells[q] = EMPTY }

\* the stones whose maximal chain has a liberty
RefAlive(cells, size) ==
    RefClosure(cells, size, RefBreathing(cells, size), RefGrow(cells, size, RefBreathing(cells, size)))

RefStonesOn(b) == { p \in RefPoints(b.size) : b.cells[p] \in {BLACK, WHITE} }

\* C36: in every reachable state of the game board, and after every move of
\* a rollout on the scratch board, every maximal chain of stones has at
\* least one liberty: no chain without a liberty is left standing
C36_EveryChainHasLiberty ==
    /\ RefStonesOn(board) \subseteq RefAlive(board.cells, board.size)
    /\ RefStonesOn(scratchBoard) \subseteq RefAlive(scratchBoard.cells, scratchBoard.size)

\* a move of a rollout has just taken several stones off the scratch board
C36_Witness ==
    /\ pc = "playout"
    /\ scratchBoard.moveCount > board.moveCount
    /\ scratchBoard.moves[scratchBoard.moveCount] # PASS
    /\ gen.playedCount = 0
    /\ Cardinality(RefStonesOn(scratchBoard)) + 1 < Cardinality(RefStonesOn(board))

\* ---------------------------------------------------------------------------
\* What a simple ko would repeat
\* ---------------------------------------------------------------------------

\* the position before the last recorded move of the game
RefPositionBeforeLast ==
    IF board.moveCount = 1 THEN emptyPosition(board.size) ELSE positions[board.moveCount - 1]

\* the points the last recorded move of the game emptied
RefTakenByLast ==
    { allPointsOf(board.size)[i] : i \in { j \in 1..(board.size * board.size) :
        RefPositionBeforeLast[j] # EMPTY /\ positions[board.moveCount][j] = EMPTY } }

\* C37: when play_move(p) returns SimpleKo, the position that playing p would
\* leave equals, stone for stone, the position before the preceding recorded
\* move, and p is the one point where that preceding move took its single stone
C37_KoWouldRepeatPosition ==
    \A p \in RefPoints(board.size) :
        (makeMove(board, p).result = "ko")
            => /\ board.moveCount >= 1
               /\ Len(positions) = board.moveCount
               /\ RefPositionAfter(board, p) = RefPositionBeforeLast
               /\ RefTakenByLast = {p}

\* Play has just refused a simple ko
C37_Witness ==
    /\ ret.op = "Play"
    /\ ret.result = "ko"
    /\ \E p \in RefPoints(board.size) : makeMove(board, p).result = "ko"

\* ---------------------------------------------------------------------------
\* The capacity of the histories
\* ---------------------------------------------------------------------------

\* C38: for every sequence of calls after a clear, with any number of Passes,
\* move_count never exceeds the capacity of the move history and of the hash
\* history (4 times the length of the cell array), so recording a move, a
\* Pass or a hash never indexes past the end of either array
C38_HistoryWithinCapacity ==
    /\ board.moveCount <= movesLen(board.size)
    /\ Len(boardHashes) <= movesLen(board.size)
    /\ ~(ret.op = "Play" /\ ret.result = "panic" /\ board.moveCount = movesLen(board.size))

\* ---------------------------------------------------------------------------
\* The playout bound on a long game
\* ---------------------------------------------------------------------------

\* C39: the bound of 3*size^2 moves is measured on the absolute move_count:
\* when the game board has 3*size^2 moves or more as find_wins starts, every
\* playout appends no move, every entry of hits stays 0, and generate_move
\* returns Passed whatever the position on the board
C39_LongGamePasses ==
    [][ /\ (pc' \in {"playout", "gameOver"} /\ board'.moveCount >= maxPlayoutMoves(board'.size))
            => /\ scratchBoard'.moveCount = board'.moveCount
               /\ hits' = zeroStats(board'.size)
        /\ (pc = "gameOver" /\ pc' # "playout" /\ board.moveCount >= maxPlayoutMoves(board.size))
            => /\ hits' = zeroStats(board.size)
               /\ ret'.op = "GenMove"
               /\ ret'.result = "passed" ]_vars

\* ---------------------------------------------------------------------------
\* The one-capture flag and the point mask
\* ---------------------------------------------------------------------------

\* the cell of the cleared board at index p is a playable point
RefPlayable(size, p) ==
    \E x \in 1..size, y \in 1..size : p = y * (size + 1) + x

\* C40: for every supported size (1..25) every playable point index is below
\* 1024, so a recorded move with the one-capture flag (1024) set decodes
\* through the mask 1023 to exactly the point played; a recorded Pass never
\* carries the flag, and a flagged entry never decodes to Pass or to an Edge
\* cell
C40_FlagAndMaskFitEveryPoint ==
    /\ gtp.op = "flag"
         => /\ gtp.pt < 1024
            /\ gtp.flagged
            /\ gtp.decoded = gtp.pt
            /\ ~gtp.plain
    /\ (ret.op = "makeMove" /\ ret.ok)
         => /\ moveToPt(board.moves[board.moveCount]) = ret.y * (board.size + 1) + ret.x
            /\ hasOneCapture(board.moves[board.moveCount]) <=> (ret.captures = 1)
            /\ ret.result = "passed" => board.moves[board.moveCount] = PASS
    /\ \A i \in 1..board.moveCount :
         /\ board.moves[i] = PASS => ~hasOneCapture(board.moves[i])
         /\ hasOneCapture(board.moves[i])
              => /\ moveToPt(board.moves[i]) # PASS
                 /\ RefPlayable(board.size, moveToPt(board.moves[i]))
                 /\ clearedBoard(board.size).cells[moveToPt(board.moves[i])] # EDGE

\* on the largest board the stone in the top-right corner has just been taken
\* and the move is recorded with the flag
C40_Witness ==
    /\ board.size = maxBoardSize
    /\ ret.op = "makeMove"
    /\ ret.captures = 1
    /\ board.cells[maxBoardSize * (maxBoardSize + 1) + maxBoardSize] = EMPTY
    /\ board.moves[board.moveCount] > 1024 + 512

====
